---- MODULE Spec2Model ----
(***************************************************************************)
(* Time-height series alignment engine of NAP2 (PeilmerkDB/calcalignment). *)
(*                                                                         *)
(* Numbers.  The code computes with Python floats.  The model computes     *)
(* with exact rationals <<n, d>> (d > 0, lowest terms), so equalities of   *)
(* the model are equalities of the real-number algorithm.                  *)
(* Points are pairs <<t, z>> of rationals; a series is a sequence of       *)
(* points; Python indices are 0-based, so element i of a Python list l is  *)
(* l[i + 1] here (operator At).                                            *)
(***************************************************************************)
EXTENDS Integers, Sequences, FiniteSets, TLC

(***************************************************************************)
(* Bounds of the model: times 0..MaxT, heights 0..MaxZ, series of at most  *)
(* MaxLen points; the calls on the database are followed until the content *)
(* of the cache has changed MaxWrites times                                *)
(***************************************************************************)
MaxT == 2
MaxZ == 1
MaxLen == 2
MaxWrites == 1

(***************************************************************************)
(* Exact rational arithmetic                                               *)
(***************************************************************************)
Abs(x) == IF x < 0 THEN -x ELSE x

RECURSIVE GCD(_, _)
GCD(a, b) == IF b = 0 THEN a ELSE GCD(b, a % b)

RNorm(n, d) ==
    LET g == GCD(Abs(n), Abs(d))
        s == IF d < 0 THEN -1 ELSE 1
    IN  <<(s * n) \div g, (s * d) \div g>>

R(n) == <<n, 1>>
\* sums and comparisons over the least common denominator, products with
\* cross-cancellation: no intermediate number is larger than needed
RAdd(a, b) ==
    IF a[2] = b[2] THEN RNorm(a[1] + b[1], a[2])
    ELSE LET g == GCD(a[2], b[2])
         IN  RNorm(a[1] * (b[2] \div g) + b[1] * (a[2] \div g),
                   (a[2] \div g) * b[2])
RNeg(a) == <<-a[1], a[2]>>
RSub(a, b) == RAdd(a, RNeg(b))
RMul(a, b) ==
    IF a[1] = 0 \/ b[1] = 0 THEN <<0, 1>>
    ELSE LET g1 == GCD(Abs(a[1]), b[2])
             g2 == GCD(Abs(b[1]), a[2])
         IN  <<(a[1] \div g1) * (b[1] \div g2), (a[2] \div g2) * (b[2] \div g1)>>
RDiv(a, b) == RMul(a, IF b[1] < 0 THEN <<-b[2], -b[1]>> ELSE <<b[2], b[1]>>)
RLt(a, b) ==
    IF a[2] = b[2] THEN a[1] < b[1]
    ELSE LET g == GCD(a[2], b[2])
         IN  a[1] * (b[2] \div g) < b[1] * (a[2] \div g)
RLe(a, b) == ~RLt(b, a)
RAbs(a) == <<Abs(a[1]), a[2]>>
RMax(a, b) == IF RLt(a, b) THEN b ELSE a
RHalf(a) == RDiv(a, R(2))

\* Python's None, kept comparable with rationals
None == <<0, 0>>

\* Element i (0-based) of a Python list
At(l, i) == l[i + 1]
Last(l) == l[Len(l)]

(***************************************************************************)
(* Keys of the collections                                                 *)
(***************************************************************************)
MERGE == "merge"
MEDIAN == "median"
SEGMENT == "segment"
MEDIAN_SEGMENT == "median_segment_"
DZ == "dz"

\* MEDIAN_SEGMENT + str(idx), idx = 0, 1, ...
SegNames == <<"median_segment_0", "median_segment_1", "median_segment_2",
              "median_segment_3", "median_segment_4", "median_segment_5",
              "median_segment_6", "median_segment_7", "median_segment_8",
              "median_segment_9">>
SegKey(idx) == SegNames[idx + 1]

\* Iteration order of the dictionaries (insertion order of the keys)
KeyOrder == <<"s1", "s2", "s3", "m1", "m2", "m3", "median", "merge",
              "median_segment_">> \o SegNames

RECURSIVE KeySeqFrom(_, _)
KeySeqFrom(S, i) ==
    IF i > Len(KeyOrder) THEN <<>>
    ELSE (IF KeyOrder[i] \in S THEN <<KeyOrder[i]>> ELSE <<>>)
         \o KeySeqFrom(S, i + 1)
KeySeq(S) == KeySeqFrom(S, 1)

(***************************************************************************)
(* statistics.median and list.sort                                         *)
(***************************************************************************)
RECURSIVE InsertSorted(_, _)
InsertSorted(x, l) ==
    IF l = <<>> THEN <<x>>
    ELSE IF RLe(x, Head(l)) THEN <<x>> \o l
    ELSE <<Head(l)>> \o InsertSorted(x, Tail(l))

RECURSIVE SortR(_)
SortR(l) == IF l = <<>> THEN <<>> ELSE InsertSorted(Head(l), SortR(Tail(l)))

Median(l) ==
    LET s == SortR(l)
        n == Len(s)
    IN  IF n % 2 = 1 THEN s[(n + 1) \div 2]
        ELSE RHalf(RAdd(s[n \div 2], s[n \div 2 + 1]))

RECURSIVE SetToSortedSeq(_)
SetToSortedSeq(S) ==
    IF S = {} THEN <<>>
    ELSE LET m == CHOOSE x \in S : \A y \in S : RLe(x, y)
         IN  <<m>> \o SetToSortedSeq(S \ {m})

(***************************************************************************)
(* AnalyzeTZSeries: the median-curve builder                               *)
(***************************************************************************)
ReplaceLast(l, x) == [l EXCEPT ![Len(l)] = x]
AppendToLast(ll, x) == [ll EXCEPT ![Len(ll)] = Append(ll[Len(ll)], x)]

\* the set of all time points, as a sorted list
TimePoints(tzData) ==
    SetToSortedSeq(UNION {{tzData[s][i][1] : i \in 1..Len(tzData[s])}
                          : s \in DOMAIN tzData})

\* the time-duplicates of one series: a run of equal times becomes one point
\* with the median height
RECURSIVE DedupLoop(_, _, _, _, _, _)
DedupLoop(tzPairs, i, subdict, tprev, zprev, foundDupl) ==
    IF i > Len(tzPairs)
    THEN IF foundDupl THEN ReplaceLast(subdict, <<tprev, Median(zprev)>>)
         ELSE subdict
    ELSE LET tz == tzPairs[i]
         IN  IF tz[1] = tprev
             THEN DedupLoop(tzPairs, i + 1, subdict, tprev,
                            Append(zprev, tz[2]), TRUE)
             ELSE LET sub2 == IF foundDupl
                              THEN ReplaceLast(subdict, <<tprev, Median(zprev)>>)
                              ELSE subdict
                  IN  DedupLoop(tzPairs, i + 1, Append(sub2, tz), tz[1],
                                <<tz[2]>>, FALSE)

\* Dedup that keeps every point
DedupNone(tzPairs) == tzPairs

Dedup(tzPairs) == DedupLoop(tzPairs, 1, <<>>, None, <<>>, FALSE)

\* while(idx<len(subdict)) and (subdict[idx][0]<t1): idx+=1
RECURSIVE MoveIdx(_, _, _)
MoveIdx(subdict, idx, t1) ==
    IF idx < Len(subdict) /\ RLt(At(subdict, idx)[1], t1)
    THEN MoveIdx(subdict, idx + 1, t1)
    ELSE idx

\* EndTolIdx that steps back at the end of the series whatever the distance
EndTolIdxAlways(subdict, idx, t1, timeTol) ==
    LET i == MoveIdx(subdict, idx, t1)
    IN  IF i = Len(subdict) THEN i - 1 ELSE i

\* the index of one series for the interval ending at t1, with the tolerance
\* at the end of the series
EndTolIdx(subdict, idx, t1, timeTol) ==
    LET i == MoveIdx(subdict, idx, t1)
    IN  IF i = Len(subdict) /\ RLt(RSub(t1, timeTol), At(subdict, i - 1)[1])
        THEN i - 1 ELSE i

\* the derivatives of the series that bracket the midpoint of [t0, t1]
RECURSIVE Derivatives(_, _, _, _, _, _)
Derivatives(tzlistdict, keys, idx, t0, t1, timeTol) ==
    IF keys = <<>> THEN <<>>
    ELSE LET srvy == Head(keys)
             subdict == tzlistdict[srvy]
             rest == Derivatives(tzlistdict, Tail(keys), idx, t0, t1, timeTol)
         IN  IF idx[srvy] > 0 /\ idx[srvy] < Len(subdict)
             THEN LET lt0 == At(subdict, idx[srvy] - 1)[1]
                      lt1 == At(subdict, idx[srvy])[1]
                      tmid == RHalf(RAdd(t0, t1))
                  IN  IF RLt(RSub(lt0, timeTol), tmid)
                         /\ RLe(tmid, RAdd(lt1, timeTol))
                      THEN <<RDiv(RSub(At(subdict, idx[srvy])[2],
                                       At(subdict, idx[srvy] - 1)[2]),
                                  RSub(lt1, lt0))>> \o rest
                      ELSE rest
             ELSE rest

RECURSIVE SumR(_)
SumR(l) == IF l = <<>> THEN R(0) ELSE RAdd(Head(l), SumR(Tail(l)))

\* WalkLoop that integrates the mean of the derivatives
RECURSIVE WalkLoopMean(_, _, _, _, _, _, _, _)
WalkLoopMean(tzlistdict, ts, timeTol, jdx, t1, z1, idx, otzlistlist) ==
    IF jdx + 1 >= Len(ts) THEN otzlistlist
    ELSE LET t0 == t1
             z0 == z1
             nt1 == At(ts, jdx + 1)
             idx2 == [s \in DOMAIN tzlistdict |->
                        EndTolIdx(tzlistdict[s], idx[s], nt1, timeTol)]
             dzdt == Derivatives(tzlistdict, KeySeq(DOMAIN tzlistdict), idx2,
                                 t0, nt1, timeTol)
         IN  IF Len(dzdt) > 0
             THEN LET nz1 == RAdd(z0, RMul(RDiv(SumR(dzdt), R(Len(dzdt))),
                                           RSub(nt1, t0)))
                  IN  WalkLoopMean(tzlistdict, ts, timeTol, jdx + 1, nt1, nz1,
                                   idx2,
                                   AppendToLast(otzlistlist, <<nt1, nz1>>))
             ELSE WalkLoopMean(tzlistdict, ts, timeTol, jdx + 1, nt1, R(0),
                               idx2, Append(otzlistlist, <<<<nt1, R(0)>>>>))

\* WalkLoop that adds the median speed without the duration of the step
RECURSIVE WalkLoopNoDuration(_, _, _, _, _, _, _, _)
WalkLoopNoDuration(tzlistdict, ts, timeTol, jdx, t1, z1, idx, otzlistlist) ==
    IF jdx + 1 >= Len(ts) THEN otzlistlist
    ELSE LET t0 == t1
             z0 == z1
             nt1 == At(ts, jdx + 1)
             idx2 == [s \in DOMAIN tzlistdict |->
                        EndTolIdx(tzlistdict[s], idx[s], nt1, timeTol)]
             dzdt == Derivatives(tzlistdict, KeySeq(DOMAIN tzlistdict), idx2,
                                 t0, nt1, timeTol)
         IN  IF Len(dzdt) > 0
             THEN LET nz1 == RAdd(z0, Median(dzdt))
                  IN  WalkLoopNoDuration(tzlistdict, ts, timeTol, jdx + 1, nt1,
                                         nz1, idx2,
                                         AppendToLast(otzlistlist,
                                                      <<nt1, nz1>>))
             ELSE WalkLoopNoDuration(tzlistdict, ts, timeTol, jdx + 1, nt1,
                                     R(0), idx2,
                                     Append(otzlistlist, <<<<nt1, R(0)>>>>))

\* integrate the median subsidence speed along the time points; start a new
\* segment where no series has a derivative
RECURSIVE WalkLoop(_, _, _, _, _, _, _, _)
WalkLoop(tzlistdict, ts, timeTol, jdx, t1, z1, idx, otzlistlist) ==
    IF jdx + 1 >= Len(ts) THEN otzlistlist
    ELSE LET t0 == t1
             z0 == z1
             nt1 == At(ts, jdx + 1)
             idx2 == [s \in DOMAIN tzlistdict |->
                        EndTolIdx(tzlistdict[s], idx[s], nt1, timeTol)]
             dzdt == Derivatives(tzlistdict, KeySeq(DOMAIN tzlistdict), idx2,
                                 t0, nt1, timeTol)
         IN  IF Len(dzdt) > 0
             THEN LET nz1 == RAdd(z0, RMul(Median(dzdt), RSub(nt1, t0)))
                  IN  WalkLoop(tzlistdict, ts, timeTol, jdx + 1, nt1, nz1, idx2,
                               AppendToLast(otzlistlist, <<nt1, nz1>>))
             ELSE WalkLoop(tzlistdict, ts, timeTol, jdx + 1, nt1, R(0), idx2,
                           Append(otzlistlist, <<<<nt1, R(0)>>>>))

\* FirstSegment with the start of the time range left out
RECURSIVE FirstSegmentStrict(_, _, _)
FirstSegmentStrict(otzlistlist, t0, j) ==
    IF j >= Len(otzlistlist) THEN -1
    ELSE LET sublist == At(otzlistlist, j)
         IN  IF RLt(sublist[1][1], t0) /\ RLe(t0, Last(sublist)[1])
             THEN j
             ELSE FirstSegmentStrict(otzlistlist, t0, j + 1)

\* the first segment whose time range holds t0 (-1: none)
RECURSIVE FirstSegment(_, _, _)
FirstSegment(otzlistlist, t0, j) ==
    IF j >= Len(otzlistlist) THEN -1
    ELSE LET sublist == At(otzlistlist, j)
         IN  IF RLe(sublist[1][1], t0) /\ RLe(t0, Last(sublist)[1])
             THEN j
             ELSE FirstSegment(otzlistlist, t0, j + 1)

\* afterDate=None becomes 1e-10; t < 1e-10 is t <= 0 for the times of the
\* model, whose denominators are far below 10^10
LtAfterDate(t, afterDate) ==
    IF afterDate = None THEN RLe(t, R(0)) ELSE RLt(t, afterDate)

\* the shift of a series of one point: <<dz, dt>>, dz = None when the time
\* does not occur in the segment
RECURSIVE ShiftOnePoint(_, _, _)
ShiftOnePoint(tz, seg, acc) ==
    IF seg = <<>> THEN acc
    ELSE ShiftOnePoint(tz, Tail(seg),
                       IF Head(seg)[1] = tz[1]
                       THEN <<RSub(Head(seg)[2], tz[2]), R(0)>> ELSE acc)

\* the area between the series and the median of its segment: <<dz, dt>>
RECURSIVE ShiftLoop(_, _, _, _, _, _, _, _, _)
ShiftLoop(subdict, seg, afterDate, jdx, t1, z1, idx, dz, dt) ==
    IF jdx + 1 >= Len(seg) THEN <<dz, dt>>
    ELSE LET t0 == t1
             z0 == z1
             nt1 == At(seg, jdx + 1)[1]
             nz1 == At(seg, jdx + 1)[2]
             idx2 == MoveIdx(subdict, idx, nt1)
         IN  IF 0 < idx2 /\ idx2 < Len(subdict)
                /\ RLe(At(subdict, idx2 - 1)[1], t0)
                /\ RLe(nt1, At(subdict, idx2)[1])
             THEN LET lt0 == At(subdict, idx2 - 1)[1]
                      lt1 == At(subdict, idx2)[1]
                      lz0 == At(subdict, idx2 - 1)[2]
                      lz1 == At(subdict, idx2)[2]
                      z0int == RAdd(RMul(RDiv(RSub(t0, lt0), RSub(lt1, lt0)),
                                         RSub(lz1, lz0)), lz0)
                      z1int == RAdd(RMul(RDiv(RSub(nt1, lt0), RSub(lt1, lt0)),
                                         RSub(lz1, lz0)), lz0)
                      w == IF LtAfterDate(t0, afterDate) THEN <<1, 100>>
                           ELSE R(1)
                      ddz == RMul(RMul(RHalf(RAdd(RSub(z0, z0int),
                                                  RSub(nz1, z1int))),
                                       RSub(nt1, t0)), w)
                      ddt == RMul(RSub(nt1, t0), w)
                  IN  ShiftLoop(subdict, seg, afterDate, jdx + 1, nt1, nz1,
                                idx2, RAdd(dz, ddz), RAdd(dt, ddt))
             ELSE ShiftLoop(subdict, seg, afterDate, jdx + 1, nt1, nz1, idx2,
                            dz, dt)

\* SeriesShift without the division by the covered duration
SeriesShiftNotNormalized(subdict, seg, afterDate) ==
    IF Len(subdict) = 1
    THEN ShiftOnePoint(subdict[1], seg, <<None, None>>)
    ELSE ShiftLoop(subdict, seg, afterDate, 0, seg[1][1], seg[1][2], 0, R(0),
                   R(0))

SeriesShift(subdict, seg, afterDate) ==
    IF Len(subdict) = 1
    THEN ShiftOnePoint(subdict[1], seg, <<None, None>>)
    ELSE LET r == ShiftLoop(subdict, seg, afterDate, 0, seg[1][1], seg[1][2],
                            0, R(0), R(0))
         IN  IF RLt(R(0), r[2]) THEN <<RDiv(r[1], r[2]), r[2]>> ELSE r


RECURSIVE SelectSeq2(_, _, _)
SelectSeq2(keys, f, S) ==
    IF keys = <<>> THEN <<>>
    ELSE (IF Head(keys) \in S THEN <<f[Head(keys)]>> ELSE <<>>)
         \o SelectSeq2(Tail(keys), f, S)

ShiftZ(tzPairs, dz) == [i \in 1..Len(tzPairs) |->
                          <<tzPairs[i][1], RAdd(tzPairs[i][2], dz)>>]

RECURSIVE Concat(_)
Concat(ll) == IF ll = <<>> THEN <<>> ELSE Head(ll) \o Concat(Tail(ll))

AnalyzeError(e) == [err |-> e, median |-> <<>>, segs |-> <<>>,
                    segment |-> <<>>, dz |-> <<>>]

\* the members of a segment among the series that have a shift
Members(segments, sh, iseg) ==
    {s \in DOMAIN sh : sh[s][1] # None /\ segments[s] = iseg}

\* w=max(0.001,dt[srvy])
ShiftWeight(shs) == RMax(<<1, 1000>>, shs[2])

\* SegmentShift as the plain average, every member with weight 1
SegmentShiftUnweighted(keys, segments, sh, iseg) ==
    RDiv(SumR(SelectSeq2(keys, [s \in DOMAIN sh |-> sh[s][1]],
                         Members(segments, sh, iseg))),
         R(Cardinality(Members(segments, sh, iseg))))

\* the weighted average shift of the members of a segment
SegmentShift(keys, segments, sh, iseg) ==
    RDiv(SumR(SelectSeq2(keys, [s \in DOMAIN sh |->
                                   RMul(sh[s][1], ShiftWeight(sh[s]))],
                         Members(segments, sh, iseg))),
         SumR(SelectSeq2(keys, [s \in DOMAIN sh |-> ShiftWeight(sh[s])],
                         Members(segments, sh, iseg))))

\* "Calculate average shift per segment", "Shift segments", "Map shifts to
\* survey" and the output
AnalyzeOutput(otz0, segments, sh, dzavg) ==
    [err |-> "none",
     median |-> Concat([i \in 1..Len(otz0) |->
                          ShiftZ(otz0[i], RNeg(dzavg[i]))]),
     segs |-> [i \in 1..Len(otz0) |-> ShiftZ(otz0[i], RNeg(dzavg[i]))],
     segment |-> segments,
     dz |-> [s \in {k \in DOMAIN sh : sh[k][1] # None} |->
               RSub(sh[s][1], dzavg[segments[s] + 1])]]

AnalyzeAverage(otz0, segments, sh) ==
    IF \E iseg \in 0..Len(otz0) - 1 : Members(segments, sh, iseg) = {}
    THEN AnalyzeError("AssertionError")
    ELSE AnalyzeOutput(otz0, segments, sh,
                       [i \in 1..Len(otz0) |->
                          SegmentShift(KeySeq(DOMAIN sh), segments, sh, i - 1)])

\* "align the segments vertically": the shift of every series
AnalyzeShifts(tzlistdict, otz0, segments, afterDate) ==
    IF \E s \in DOMAIN segments : segments[s] = -1
    THEN AnalyzeError("KeyError")
    ELSE AnalyzeAverage(otz0, segments,
                        [s \in DOMAIN tzlistdict |->
                           SeriesShift(tzlistdict[s], At(otz0, segments[s]),
                                       afterDate)])

\* "Every input series must be contained in a single segment"
AnalyzeSegments(tzlistdict, otz0, afterDate) ==
    AnalyzeShifts(tzlistdict, otz0,
                  [s \in DOMAIN tzlistdict |->
                     FirstSegment(otz0, tzlistdict[s][1][1], 0)],
                  afterDate)

\* the walk along the time points
AnalyzeWalk(tzlistdict, ts, afterDate, timeTol) ==
    AnalyzeSegments(tzlistdict,
                    WalkLoop(tzlistdict, ts, timeTol, 0, ts[1], R(0),
                             [s \in DOMAIN tzlistdict |-> 0],
                             << <<<<ts[1], R(0)>>>> >>),
                    afterDate)

\* AnalyzeTZSeries without the guard of lines 63-68: the empty collection
\* reaches ts[0] of line 149
AnalyzeTZSeriesNoGuard(tzData, afterDate, timeTol) ==
    IF DOMAIN tzData = {} \/ \E s \in DOMAIN tzData : tzData[s] = <<>>
    THEN AnalyzeError("IndexError")
    ELSE AnalyzeWalk([s \in DOMAIN tzData |-> Dedup(tzData[s])],
                     TimePoints(tzData), afterDate, timeTol)

\* Result: err; median = tzData2[MEDIAN]; segs[i + 1] =
\* tzData2[MEDIAN_SEGMENT + str(i)]; segment = tzData3[SEGMENT] (as segment
\* numbers); dz = tzData3[DZ]
AnalyzeTZSeries(tzData, afterDate, timeTol) ==
    IF DOMAIN tzData = {}
    THEN [err |-> "none", median |-> <<>>, segs |-> << <<>> >>,
          segment |-> <<>>, dz |-> <<>>]
    ELSE IF \E s \in DOMAIN tzData : tzData[s] = <<>>
    THEN AnalyzeError("IndexError")
    ELSE AnalyzeWalk([s \in DOMAIN tzData |-> Dedup(tzData[s])],
                     TimePoints(tzData), afterDate, timeTol)

(***************************************************************************)
(* interpolatefunctions.Interpolate                                        *)
(***************************************************************************)
\* the bisection; i0, i9 are 0-based and may run downwards
RECURSIVE Bisect(_, _, _, _)
Bisect(tzPairs, t, i0, i9) ==
    IF Abs(i9 - i0) > 1
    THEN LET imid == (i0 + i9) \div 2
         IN  IF RLt(At(tzPairs, imid)[1], t)
             THEN Bisect(tzPairs, t, imid, i9)
             ELSE Bisect(tzPairs, t, i0, imid)
    ELSE <<i0, i9>>

\* Result: [err, r]
Interpolate(tzPairs, t, extrapol) ==
    LET nx == Len(tzPairs)
    IN  IF nx = 0 THEN [err |-> "IndexError", r |-> None]
        ELSE IF nx < 2 THEN [err |-> "none", r |-> tzPairs[1][2]]
        ELSE
        LET swap == RLt(At(tzPairs, nx - 1)[1], At(tzPairs, 0)[1])
            i0 == IF swap THEN nx - 1 ELSE 0
            i9 == IF swap THEN 0 ELSE nx - 1
            xmin == At(tzPairs, i0)[1]
            xmax == At(tzPairs, i9)[1]
        IN  IF ~extrapol /\ RLe(t, xmin)
            THEN [err |-> "none", r |-> At(tzPairs, i0)[2]]
            ELSE IF ~extrapol /\ RLe(xmax, t)
            THEN [err |-> "none", r |-> At(tzPairs, i9)[2]]
            ELSE
            LET b == Bisect(tzPairs, t, i0, i9)
                y1 == At(tzPairs, b[1])[2]
                y2 == At(tzPairs, b[2])[2]
                x1 == At(tzPairs, b[1])[1]
                x2 == At(tzPairs, b[2])[1]
            IN  IF x1 = x2 THEN [err |-> "ZeroDivisionError", r |-> None]
                ELSE [err |-> "none",
                      r |-> RAdd(y1, RMul(RDiv(RSub(y2, y1), RSub(x2, x1)),
                                          RSub(t, x1)))]

(***************************************************************************)
(* interpolatefunctions.GetClosest                                         *)
(***************************************************************************)
\* the point of the bracket b = <<i0, i9>> whose time is farther from t
FartherOf(tzPairs, t, b) ==
    IF RLt(RAbs(RSub(t, At(tzPairs, b[1])[1])),
           RAbs(RSub(t, At(tzPairs, b[2])[1])))
    THEN At(tzPairs, b[2]) ELSE At(tzPairs, b[1])

\* r = tzPairs[i0] if abs(t-x1)<abs(t-x2) else tzPairs[i9]
CloserOf(tzPairs, t, b) ==
    IF RLt(RAbs(RSub(t, At(tzPairs, b[1])[1])),
           RAbs(RSub(t, At(tzPairs, b[2])[1])))
    THEN At(tzPairs, b[1]) ELSE At(tzPairs, b[2])

\* GetClosest without lines 23-25: the ends are not swapped
GetClosestNoSwap(tzPairs, t) ==
    LET nx == Len(tzPairs)
    IN  IF nx = 0 THEN [err |-> "IndexError", r |-> None]
        ELSE IF nx < 2 THEN [err |-> "none", r |-> tzPairs[1]]
        ELSE IF RLe(t, At(tzPairs, 0)[1])
        THEN [err |-> "none", r |-> At(tzPairs, 0)]
        ELSE IF RLe(At(tzPairs, nx - 1)[1], t)
        THEN [err |-> "none", r |-> At(tzPairs, nx - 1)]
        ELSE [err |-> "none",
              r |-> CloserOf(tzPairs, t, Bisect(tzPairs, t, 0, nx - 1))]

\* Result: [err, r], r a point
GetClosest(tzPairs, t) ==
    LET nx == Len(tzPairs)
    IN  IF nx = 0 THEN [err |-> "IndexError", r |-> None]
        ELSE IF nx < 2 THEN [err |-> "none", r |-> tzPairs[1]]
        ELSE
        LET swap == RLt(At(tzPairs, nx - 1)[1], At(tzPairs, 0)[1])
            i0 == IF swap THEN nx - 1 ELSE 0
            i9 == IF swap THEN 0 ELSE nx - 1
        IN  IF RLe(t, At(tzPairs, i0)[1])
            THEN [err |-> "none", r |-> At(tzPairs, i0)]
            ELSE IF RLe(At(tzPairs, i9)[1], t)
            THEN [err |-> "none", r |-> At(tzPairs, i9)]
            ELSE [err |-> "none",
                  r |-> CloserOf(tzPairs, t, Bisect(tzPairs, t, i0, i9))]

(***************************************************************************)
(* The arithmetic of Interpolate in IEEE 754 doubles, for coordinates that *)
(* are whole numbers below 128.  A magnitude is a sequence of FxLen digits *)
(* of FxBits bits, lowest first, FxFrac of them behind the point; a double *)
(* is a sign and a magnitude of at most 53 significant bits.               *)
(***************************************************************************)
FxBits == 15
FxBase == 32768
FxFrac == 4
FxLen == 6
MantissaBits == 53

\* the whole number n
FxInt(n) == <<0, 0, 0, 0, n % FxBase, n \div FxBase>>

\* the first k digits behind the point of r / b (r < b), highest first, and
\* the remainder left after them
RECURSIVE FracDigits(_, _, _)
FracDigits(r, b, k) ==
    IF k = 0 THEN <<>>
    ELSE <<(r * FxBase) \div b>> \o FracDigits((r * FxBase) % b, b, k - 1)

RECURSIVE FracRem(_, _, _)
FracRem(r, b, k) ==
    IF k = 0 THEN r ELSE FracRem((r * FxBase) % b, b, k - 1)

LowestFirst(l) == <<l[4], l[3], l[2], l[1]>>

\* a / b cut off after the digits behind the point, and whether anything was
\* cut off
FxDiv(a, b) ==
    [digits |-> LowestFirst(FracDigits(a % b, b, FxFrac))
                \o <<(a \div b) % FxBase, (a \div b) \div FxBase>>,
     sticky |-> FracRem(a % b, b, FxFrac) # 0]

RECURSIVE BitLen(_)
BitLen(d) == IF d = 0 THEN 0 ELSE 1 + BitLen(d \div 2)

\* the highest bit that is set, bits counted from 1 (0: none)
TopBit(x) ==
    IF \A i \in 1..FxLen : x[i] = 0 THEN 0
    ELSE LET d == CHOOSE i \in 1..FxLen :
                      x[i] # 0 /\ \A j \in i + 1..FxLen : x[j] = 0
         IN  FxBits * (d - 1) + BitLen(x[d])

BitAt(x, q) == (x[(q - 1) \div FxBits + 1] \div 2^((q - 1) % FxBits)) % 2

\* digit i of x without the bits below bit lo
CutDigit(x, lo, i) ==
    IF FxBits * i < lo THEN 0
    ELSE IF FxBits * (i - 1) + 1 < lo
    THEN x[i] - (x[i] % 2^(lo - 1 - FxBits * (i - 1)))
    ELSE x[i]

Cut(x, lo) ==
    <<CutDigit(x, lo, 1), CutDigit(x, lo, 2), CutDigit(x, lo, 3),
      CutDigit(x, lo, 4), CutDigit(x, lo, 5), CutDigit(x, lo, 6)>>

\* one unit of bit lo, digit by digit
UnitDigit(lo, i) ==
    IF i = (lo - 1) \div FxBits + 1 THEN 2^((lo - 1) % FxBits) ELSE 0

Unit(lo) ==
    <<UnitDigit(lo, 1), UnitDigit(lo, 2), UnitDigit(lo, 3), UnitDigit(lo, 4),
      UnitDigit(lo, 5), UnitDigit(lo, 6)>>

RECURSIVE FxAddFrom(_, _, _, _)
FxAddFrom(x, y, i, carry) ==
    IF i > FxLen THEN <<>>
    ELSE <<(x[i] + y[i] + carry) % FxBase>>
         \o FxAddFrom(x, y, i + 1, (x[i] + y[i] + carry) \div FxBase)

FxAdd(x, y) == FxAddFrom(x, y, 1, 0)

\* x - y for x >= y
RECURSIVE FxSubFrom(_, _, _, _)
FxSubFrom(x, y, i, borrow) ==
    IF i > FxLen THEN <<>>
    ELSE <<(x[i] - y[i] - borrow + FxBase) % FxBase>>
         \o FxSubFrom(x, y, i + 1, IF x[i] - y[i] - borrow < 0 THEN 1 ELSE 0)

FxSub(x, y) == FxSubFrom(x, y, 1, 0)

\* x * n for a whole number n
RECURSIVE FxMulFrom(_, _, _, _)
FxMulFrom(x, n, i, carry) ==
    IF i > FxLen THEN <<>>
    ELSE <<(x[i] * n + carry) % FxBase>>
         \o FxMulFrom(x, n, i + 1, (x[i] * n + carry) \div FxBase)

FxMul(x, n) == FxMulFrom(x, n, 1, 0)

\* round to nearest, ties to even, bit lo being the lowest bit that is kept;
\* sticky: the exact value is a little more than x
RoundAt(x, sticky, lo) ==
    IF lo < 2 THEN x
    ELSE IF BitAt(x, lo - 1) = 1
            /\ (sticky \/ BitAt(x, lo) = 1 \/ Cut(x, lo - 1) # x)
    THEN FxAdd(Cut(x, lo), Unit(lo))
    ELSE Cut(x, lo)

Round53(x, sticky) == RoundAt(x, sticky, TopBit(x) - MantissaBits + 1)

FxLe(x, y) ==
    \/ x = y
    \/ \E i \in 1..FxLen : x[i] < y[i] /\ \A j \in i + 1..FxLen : x[j] = y[j]

\* the double of a whole number
Double(n) == [neg |-> n < 0, digits |-> FxInt(Abs(n))]

\* g = (y2 - y1) / (x2 - x1), as a magnitude
Slope(dy, dx) ==
    Round53(FxDiv(Abs(dy), dx).digits, FxDiv(Abs(dy), dx).sticky)

\* g * (t - x1), as a magnitude
Rise(g, dt) == Round53(FxMul(g, Abs(dt)), FALSE)

\* y1 + g * (t - x1) for y1 >= 0; up tells whether the product is positive
Sum(y1, p, up) ==
    IF up THEN [neg |-> FALSE, digits |-> Round53(FxAdd(FxInt(y1), p), FALSE)]
    ELSE IF FxLe(p, FxInt(y1))
    THEN [neg |-> FALSE, digits |-> Round53(FxSub(FxInt(y1), p), FALSE)]
    ELSE [neg |-> TRUE, digits |-> Round53(FxSub(p, FxInt(y1)), FALSE)]

\* g = (y2 - y1) / (x2 - x1); r = y1 + g * (t - x1)
LineDouble(x1, y1, x2, y2, t) ==
    Sum(y1, Rise(Slope(y2 - y1, x2 - x1), t - x1),
        (y2 - y1 >= 0) = (t - x1 >= 0))

\* Interpolate on points and a time that are whole numbers, heights not
\* negative.  Result: [err, r], r a double
InterpolateDouble(tzPairs, t, extrapol) ==
    LET nx == Len(tzPairs)
    IN  IF nx = 0 THEN [err |-> "IndexError", r |-> None]
        ELSE IF nx < 2 THEN [err |-> "none", r |-> Double(tzPairs[1][2])]
        ELSE
        LET swap == At(tzPairs, nx - 1)[1] < At(tzPairs, 0)[1]
            i0 == IF swap THEN nx - 1 ELSE 0
            i9 == IF swap THEN 0 ELSE nx - 1
        IN  IF ~extrapol /\ t <= At(tzPairs, i0)[1]
            THEN [err |-> "none", r |-> Double(At(tzPairs, i0)[2])]
            ELSE IF ~extrapol /\ t >= At(tzPairs, i9)[1]
            THEN [err |-> "none", r |-> Double(At(tzPairs, i9)[2])]
            ELSE
            LET b == Bisect([i \in 1..nx |-> <<R(tzPairs[i][1]),
                                               R(tzPairs[i][2])>>],
                            R(t), i0, i9)
            IN  IF At(tzPairs, b[1])[1] = At(tzPairs, b[2])[1]
                THEN [err |-> "ZeroDivisionError", r |-> None]
                ELSE [err |-> "none",
                      r |-> LineDouble(At(tzPairs, b[1])[1],
                                       At(tzPairs, b[1])[2],
                                       At(tzPairs, b[2])[1],
                                       At(tzPairs, b[2])[2], t)]

(***************************************************************************)
(* MergeTZSeries                                                           *)
(***************************************************************************)
\* the order of Python tuples (t, z)
PointLe(p, q) == RLt(p[1], q[1]) \/ (p[1] = q[1] /\ RLe(p[2], q[2]))

RECURSIVE InsertPoint(_, _)
InsertPoint(x, l) ==
    IF l = <<>> THEN <<x>>
    ELSE IF PointLe(x, Head(l)) THEN <<x>> \o l
    ELSE <<Head(l)>> \o InsertPoint(x, Tail(l))

RECURSIVE SortPoints(_)
SortPoints(l) ==
    IF l = <<>> THEN <<>> ELSE InsertPoint(Head(l), SortPoints(Tail(l)))

RECURSIVE MergeLoop(_, _, _, _, _, _)
MergeLoop(tzPairs1, i, tzPairs2, tDup, zDup, timeTol) ==
    IF i > Len(tzPairs1)
    THEN IF Len(zDup) > 1
         THEN ReplaceLast(tzPairs2, <<Median(tDup), Median(zDup)>>)
         ELSE tzPairs2
    ELSE LET t == tzPairs1[i][1]
             z == tzPairs1[i][2]
         IN  IF Len(tDup) > 0 /\ RLt(RAbs(RSub(t, tDup[1])), timeTol)
             THEN MergeLoop(tzPairs1, i + 1, tzPairs2, Append(tDup, t),
                            Append(zDup, z), timeTol)
             ELSE LET p2 == IF Len(zDup) > 0
                            THEN ReplaceLast(tzPairs2,
                                             <<Median(tDup), Median(zDup)>>)
                            ELSE tzPairs2
                  IN  MergeLoop(tzPairs1, i + 1, Append(p2, <<t, z>>), <<t>>,
                                <<z>>, timeTol)

\* Result: tzData3[MERGE]
MergeTZSeries(tzData, timeTol) ==
    LET keys == KeySeq(DOMAIN tzData)
        tzPairs1 == SortPoints(Concat([i \in 1..Len(keys) |-> tzData[keys[i]]]))
    IN  MergeLoop(tzPairs1, 1, <<>>, <<>>, <<>>, timeTol)

(***************************************************************************)
(* CalcAlignment: the shift between two series from their overlap          *)
(***************************************************************************)
\* the locals of the merge loop after "Prepare admin"
CalcInit(tzData1, tzData2) ==
    [i1 |-> 0, i2 |-> 0,
     tL1 |-> None, zL1 |-> None,
     t1 |-> At(tzData1, 0)[1], z1 |-> At(tzData1, 0)[2],
     tL2 |-> None, zL2 |-> None,
     t2 |-> At(tzData2, 0)[1], z2 |-> At(tzData2, 0)[2],
     dtz |-> <<>>, st |-> "loop"]

\* linear interpolation at t between (ta, za) and (tb, zb)
LinInt(t, ta, za, tb, zb) ==
    RAdd(RMul(RDiv(RSub(t, ta), RSub(tb, ta)), RSub(zb, za)), za)

\* t1 < t2
CalcStepFirst(tzData1, tzData2, c) ==
    IF c.tL2 # None /\ c.t2 = c.tL2
    THEN [c EXCEPT !.st = "ZeroDivisionError"]
    ELSE
    LET dtz2 == IF c.tL2 # None
                THEN Append(c.dtz,
                            <<c.t1, RSub(LinInt(c.t1, c.tL2, c.zL2, c.t2, c.z2),
                                         c.z1)>>)
                ELSE c.dtz
        i1n == c.i1 + 1
        c2 == [c EXCEPT !.dtz = dtz2, !.i1 = i1n, !.tL1 = c.t1, !.zL1 = c.z1]
    IN  IF i1n >= Len(tzData1) THEN [c2 EXCEPT !.st = "done"]
        ELSE [c2 EXCEPT !.t1 = At(tzData1, i1n)[1], !.z1 = At(tzData1, i1n)[2]]

\* CalcStepSecond without i2+=1 of line 674
CalcStepSecondNoAdvance(tzData1, tzData2, c) ==
    IF c.tL1 # None /\ c.t1 = c.tL1
    THEN [c EXCEPT !.st = "ZeroDivisionError"]
    ELSE
    LET dtz2 == IF c.tL1 # None
                THEN Append(c.dtz,
                            <<c.t2, RSub(c.z2,
                                         LinInt(c.t2, c.tL1, c.zL1, c.t1, c.z1))>>)
                ELSE c.dtz
        c2 == [c EXCEPT !.dtz = dtz2, !.tL2 = c.t2, !.zL2 = c.z2]
    IN  IF c.i2 >= Len(tzData2) THEN [c2 EXCEPT !.st = "done"]
        ELSE IF c.i1 >= Len(tzData2) THEN [c2 EXCEPT !.st = "IndexError"]
        ELSE [c2 EXCEPT !.t2 = At(tzData2, c.i1)[1],
                        !.z2 = At(tzData2, c.i1)[2]]

\* t2 < t1; the next point of the second series is read at index i1
CalcStepSecond(tzData1, tzData2, c) ==
    IF c.tL1 # None /\ c.t1 = c.tL1
    THEN [c EXCEPT !.st = "ZeroDivisionError"]
    ELSE
    LET dtz2 == IF c.tL1 # None
                THEN Append(c.dtz,
                            <<c.t2, RSub(c.z2,
                                         LinInt(c.t2, c.tL1, c.zL1, c.t1, c.z1))>>)
                ELSE c.dtz
        i2n == c.i2 + 1
        c2 == [c EXCEPT !.dtz = dtz2, !.i2 = i2n, !.tL2 = c.t2, !.zL2 = c.z2]
    IN  IF i2n >= Len(tzData2) THEN [c2 EXCEPT !.st = "done"]
        ELSE IF c.i1 >= Len(tzData2) THEN [c2 EXCEPT !.st = "IndexError"]
        ELSE [c2 EXCEPT !.t2 = At(tzData2, c.i1)[1],
                        !.z2 = At(tzData2, c.i1)[2]]

\* t1 = t2
CalcStepEqual(tzData1, tzData2, c) ==
    LET c2 == [c EXCEPT !.dtz = Append(c.dtz, <<c.t1, RSub(c.z2, c.z1)>>)]
        end1 == c.i1 >= Len(tzData1) - 1
        end2 == c.i2 >= Len(tzData2) - 1
        moveIt == IF end1 THEN 2
                  ELSE IF end2 THEN 1
                  ELSE IF RLt(At(tzData1, c.i1 + 1)[1], At(tzData2, c.i2 + 1)[1])
                       THEN 1 ELSE 2
    IN  IF end1 /\ end2 THEN [c2 EXCEPT !.st = "done"]
        ELSE IF moveIt = 1
        THEN [c2 EXCEPT !.tL1 = c.t1, !.zL1 = c.z1, !.i1 = c.i1 + 1,
                        !.t1 = At(tzData1, c.i1 + 1)[1],
                        !.z1 = At(tzData1, c.i1 + 1)[2]]
        ELSE [c2 EXCEPT !.tL2 = c.t2, !.zL2 = c.z2, !.i2 = c.i2 + 1,
                        !.t2 = At(tzData2, c.i2 + 1)[1],
                        !.z2 = At(tzData2, c.i2 + 1)[2]]

\* one iteration of the merge loop
CalcStep(tzData1, tzData2, c) ==
    IF RLt(c.t1, c.t2) THEN CalcStepFirst(tzData1, tzData2, c)
    ELSE IF RLt(c.t2, c.t1) THEN CalcStepSecond(tzData1, tzData2, c)
    ELSE CalcStepEqual(tzData1, tzData2, c)

RECURSIVE CalcLoop(_, _, _)
CalcLoop(tzData1, tzData2, c) ==
    IF c.st # "loop" THEN c
    ELSE CalcLoop(tzData1, tzData2, CalcStep(tzData1, tzData2, c))

\* CalcNearTouch that takes a gap of exactly timeTol as close
CalcNearTouchInclusive(tzData1, tzData2, c, timeTol) ==
    IF Len(c.dtz) # 0 THEN c.dtz
    ELSE IF c.i1 >= Len(tzData1) /\ c.i2 = 0
    THEN IF RLe(c.t2, RAdd(c.tL1, timeTol))
         THEN <<<<RHalf(RAdd(c.tL1, c.t2)), RSub(c.z2, c.zL1)>>>>
         ELSE c.dtz
    ELSE IF c.i2 >= Len(tzData2) /\ c.i1 = 0
    THEN IF RLe(c.t1, RAdd(c.tL2, timeTol))
         THEN <<<<RHalf(RAdd(c.t1, c.tL2)), RSub(c.zL2, c.z1)>>>>
         ELSE c.dtz
    ELSE c.dtz

\* the virtual sample of two series that nearly touch
CalcNearTouch(tzData1, tzData2, c, timeTol) ==
    IF Len(c.dtz) # 0 THEN c.dtz
    ELSE IF c.i1 >= Len(tzData1) /\ c.i2 = 0
    THEN IF RLt(c.t2, RAdd(c.tL1, timeTol))
         THEN <<<<RHalf(RAdd(c.tL1, c.t2)), RSub(c.z2, c.zL1)>>>>
         ELSE c.dtz
    ELSE IF c.i2 >= Len(tzData2) /\ c.i1 = 0
    THEN IF RLt(c.t1, RAdd(c.tL2, timeTol))
         THEN <<<<RHalf(RAdd(c.t1, c.tL2)), RSub(c.zL2, c.z1)>>>>
         ELSE c.dtz
    ELSE c.dtz

\* the weighted trapezoid sums <<dz, dt>> over the samples from indx on
RECURSIVE CalcIntegrate(_, _, _, _, _)
CalcIntegrate(dtz, indx, focusAfterDated, dz, dt) ==
    IF indx >= Len(dtz) THEN <<dz, dt>>
    ELSE LET ta == At(dtz, indx - 1)[1]
             dz1 == At(dtz, indx - 1)[2]
             tb == At(dtz, indx)[1]
             dz2 == At(dtz, indx)[2]
             w == IF RLt(tb, focusAfterDated) THEN <<1, 1000>> ELSE R(1)
         IN  CalcIntegrate(dtz, indx + 1, focusAfterDated,
                 RAdd(dz, RMul(RMul(RSub(tb, ta), w), RHalf(RAdd(dz1, dz2)))),
                 RAdd(dt, RMul(RSub(tb, ta), w)))

\* CalcFinal that returns the mean difference itself
CalcFinalNotNegated(tzData1, tzData2, c, focusAfterDated, timeTol) ==
    LET focus == IF focusAfterDated = None THEN R(0) ELSE focusAfterDated
        dtz == CalcNearTouch(tzData1, tzData2, c, timeTol)
    IN  IF Len(dtz) = 0 THEN [err |-> "NoOverlapException", r |-> None]
        ELSE IF Len(dtz) = 1 \/ Last(dtz)[1] = dtz[1][1]
        THEN [err |-> "none", r |-> RHalf(RAdd(Last(dtz)[2], dtz[1][2]))]
        ELSE LET s == CalcIntegrate(dtz, 1, focus, R(0), R(0))
             IN  IF s[2] = R(0) THEN [err |-> "ZeroDivisionError", r |-> None]
                 ELSE [err |-> "none", r |-> RDiv(s[1], s[2])]

\* "Final integration": [err, r]
CalcFinal(tzData1, tzData2, c, focusAfterDated, timeTol) ==
    LET focus == IF focusAfterDated = None THEN R(0) ELSE focusAfterDated
        dtz == CalcNearTouch(tzData1, tzData2, c, timeTol)
    IN  IF Len(dtz) = 0 THEN [err |-> "NoOverlapException", r |-> None]
        ELSE IF Len(dtz) = 1 \/ Last(dtz)[1] = dtz[1][1]
        THEN [err |-> "none",
              r |-> RNeg(RHalf(RAdd(Last(dtz)[2], dtz[1][2])))]
        ELSE LET s == CalcIntegrate(dtz, 1, focus, R(0), R(0))
             IN  IF s[2] = R(0) THEN [err |-> "ZeroDivisionError", r |-> None]
                 ELSE [err |-> "none", r |-> RNeg(RDiv(s[1], s[2]))]

\* Result: [err, r]
CalcAlignment(tzData1, tzData2, focusAfterDated, timeTol) ==
    IF Len(tzData1) = 0 \/ Len(tzData2) = 0 THEN [err |-> "none", r |-> R(0)]
    ELSE LET c == CalcLoop(tzData1, tzData2, CalcInit(tzData1, tzData2))
         IN  IF c.st # "done" THEN [err |-> c.st, r |-> None]
             ELSE CalcFinal(tzData1, tzData2, c, focusAfterDated, timeTol)

(***************************************************************************)
(* Python objects.  A list is mutable and has an identity: lists[id] is    *)
(* the content of list id.  A dictionary maps keys to list ids and has an  *)
(* identity too: dicts[id].  Two names are aliases when they hold the same *)
(* id.                                                                     *)
(***************************************************************************)
EmptyHeap == [lists |-> <<>>, dicts |-> <<>>]

\* [l1, l2, ...] / {k: l, ...}: the new object has the next free id
NewList(h, l) == [h EXCEPT !.lists = Append(@, l)]
NewDict(h, d) == [h EXCEPT !.dicts = Append(@, d)]
LastList(h) == Len(h.lists)
LastDict(h) == Len(h.dicts)

\* the collection a dictionary denotes: key -> point sequence
View(h, d) == [k \in DOMAIN h.dicts[d] |-> h.lists[h.dicts[d][k]]]

\* d[k] = id
SetDictKey(h, d, k, id) == [h EXCEPT !.dicts[d] = (k :> id) @@ @]

RECURSIVE IndexOf(_, _)
IndexOf(seq, x) == IF Head(seq) = x THEN 1 ELSE 1 + IndexOf(Tail(seq), x)

RECURSIVE Uniq(_)
Uniq(seq) ==
    IF seq = <<>> THEN <<>>
    ELSE LET u == Uniq(SubSeq(seq, 1, Len(seq) - 1))
             x == seq[Len(seq)]
         IN  IF \E i \in 1..Len(u) : u[i] = x THEN u ELSE Append(u, x)

\* a new dictionary over new lists with the given contents
AllocDict(h, val) ==
    LET keys == KeySeq(DOMAIN val)
        n == Len(h.lists)
    IN  [lists |-> h.lists \o [i \in 1..Len(keys) |-> val[keys[i]]],
         dicts |-> Append(h.dicts,
                          [k \in DOMAIN val |-> n + IndexOf(keys, k)])]

\* DeepCopy that hands back the dictionary itself
DeepCopyAlias(h, d) == [h |-> h, d |-> d]

\* copy.deepcopy of a dictionary of lists: one new list per list of the
\* original, aliases inside the original stay aliases in the copy
DeepCopy(h, d) ==
    LET keys == KeySeq(DOMAIN h.dicts[d])
        ids == Uniq([i \in 1..Len(keys) |-> h.dicts[d][keys[i]]])
        n == Len(h.lists)
    IN  [h |-> [lists |-> h.lists \o [i \in 1..Len(ids) |-> h.lists[ids[i]]],
                dicts |-> Append(h.dicts,
                                 [k \in DOMAIN h.dicts[d] |->
                                    n + IndexOf(ids, h.dicts[d][k])])],
         d |-> Len(h.dicts) + 1]

\* for s in tzData: tzData[s] = [(t, z+dz) for (t,z) in tzData[s]]
RECURSIVE RebindShifted(_, _, _, _)
RebindShifted(h, d, keys, dz) ==
    IF keys = <<>> THEN h
    ELSE LET h1 == NewList(h, ShiftZ(h.lists[h.dicts[d][Head(keys)]], dz))
         IN  RebindShifted(SetDictKey(h1, d, Head(keys), LastList(h1)), d,
                           Tail(keys), dz)

\* ApplyZShift: the tuples are replaced inside the lists of tzData
RECURSIVE ApplyZShiftKeys(_, _, _, _)
ApplyZShiftKeys(h, d, keys, dz) ==
    IF keys = <<>> THEN h
    ELSE ApplyZShiftKeys(
             [h EXCEPT !.lists[h.dicts[d][Head(keys)]] = ShiftZ(@, dz)],
             d, Tail(keys), dz)

ApplyZShift(h, d, dz) == ApplyZShiftKeys(h, d, KeySeq(DOMAIN h.dicts[d]), dz)

\* the result of a call: the heap after it, the returned object, the error
Ret(h, d) == [h |-> h, d |-> d, err |-> "none"]
Raise(h, e) == [h |-> h, d |-> 0, err |-> e]

\* the dictionary tzData2 of AnalyzeTZSeries
MedianDict(an) ==
    (MEDIAN :> an.median) @@
    [k \in {SegKey(i - 1) : i \in 1..Len(an.segs)} |->
       an.segs[CHOOSE i \in 1..Len(an.segs) : SegKey(i - 1) = k]]

(***************************************************************************)
(* Alignment orchestration                                                 *)
(***************************************************************************)
\* tzData[MEDIAN] = the median curve
SetMedian(h, d, median) ==
    SetDictKey(NewList(h, median), d, MEDIAN, Len(h.lists) + 1)

\* every key of the dictionary is bound to a new, shifted list
RebindAll(h, d, dz) == RebindShifted(h, d, KeySeq(DOMAIN h.dicts[d]), dz)

\* ShiftToRefDate that adds the height of the median on refDate
ShiftToRefDateAdded(h, tzData, median, ip) ==
    IF ip.err # "none" THEN Raise(h, ip.err)
    ELSE Ret(RebindAll(SetMedian(h, tzData, median), tzData, ip.r), tzData)

\* the median is stored in tzData and all of tzData is moved by the height
\* of the median on refDate
ShiftToRefDate(h, tzData, median, ip) ==
    IF ip.err # "none" THEN Raise(h, ip.err)
    ELSE Ret(RebindAll(SetMedian(h, tzData, median), tzData, RNeg(ip.r)),
             tzData)

AlignMedianAnalyzed(h, tzData, refDate, an) ==
    IF an.err # "none" THEN Raise(h, an.err)
    ELSE ShiftToRefDate(h, tzData, an.median,
                        Interpolate(an.median, refDate, FALSE))

AlignMedian(h, tzData, refDate, afterDate, timeTol) ==
    AlignMedianAnalyzed(h, tzData, refDate,
                        AnalyzeTZSeries(View(h, tzData), afterDate, timeTol))

\* ToMedian that leaves the series where they are
ToMedianSkipped(h, tzData, ks, dz) == h

\* "Shift all to median": tzData[s] = [(t, z+dz[s]) ...] for every series
RECURSIVE ToMedian(_, _, _, _)
ToMedian(h, tzData, ks, dz) ==
    IF ks = <<>> THEN h
    ELSE ToMedian(SetDictKey(NewList(h, ShiftZ(h.lists[h.dicts[tzData][Head(ks)]],
                                               dz[Head(ks)])),
                             tzData, Head(ks), Len(h.lists) + 1),
                  tzData, Tail(ks), dz)

AlignAllMedianAnalyzed(h, tzData, refDate, an) ==
    IF an.err # "none" THEN Raise(h, an.err)
    ELSE IF \E s \in DOMAIN h.dicts[tzData] : s \notin DOMAIN an.dz
    THEN Raise(h, "KeyError")
    ELSE ShiftToRefDate(ToMedian(h, tzData, KeySeq(DOMAIN h.dicts[tzData]),
                                 an.dz),
                        tzData, an.median,
                        Interpolate(an.median, refDate, FALSE))

\* AlignAllMedian on its own copy cp of the input
AlignAllMedianCopy(cp, refDate, afterDate, timeTol) ==
    IF DOMAIN cp.h.dicts[cp.d] = {} THEN Ret(cp.h, cp.d)
    ELSE AlignAllMedianAnalyzed(cp.h, cp.d, refDate,
                                AnalyzeTZSeries(View(cp.h, cp.d), afterDate,
                                                timeTol))

AlignAllMedian(h, tzData0, refDate, afterDate, timeTol) ==
    AlignAllMedianCopy(DeepCopy(h, tzData0), refDate, afterDate, timeTol)

\* the first segment (0-based) that covers refDate within timeTol:
\* -1 none, -2 a segment without points
RECURSIVE FindSegment(_, _, _, _)
FindSegment(segs, j, refDate, timeTol) ==
    IF j >= Len(segs) THEN -1
    ELSE IF At(segs, j) = <<>> THEN -2
    ELSE IF RLe(At(segs, j)[1][1], RAdd(refDate, timeTol))
            /\ RLe(RSub(refDate, timeTol), Last(At(segs, j))[1])
    THEN j
    ELSE FindSegment(segs, j + 1, refDate, timeTol)

\* tzOut: the median of the segment and the caller's lists of its series
SegmentDict(h, tzData, an, g0) ==
    NewDict(NewList(h, At(an.segs, g0)),
            (MEDIAN_SEGMENT :> Len(h.lists) + 1) @@
            [s \in {k \in DOMAIN an.segment : an.segment[k] = g0} |->
               h.dicts[tzData][s]])

\* ApplyZShift(tzOut, dz) on the lists tzOut shares with the caller
ShiftSegment(h, h2, ip) ==
    IF ip.err # "none" THEN Raise(h, ip.err)
    ELSE Ret(ApplyZShift(h2, LastDict(h2), ip.r), LastDict(h2))

AlignSegment(h, tzData, refDate, an, g0) ==
    IF g0 = -2 THEN Raise(h, "IndexError")
    ELSE IF g0 = -1 THEN Ret(NewDict(h, <<>>), Len(h.dicts) + 1)
    ELSE ShiftSegment(h, SegmentDict(h, tzData, an, g0),
                      Interpolate(At(an.segs, g0), refDate, FALSE))

AlignAllSegmentMedianAnalyzed(h, tzData, refDate, timeTol, an) ==
    IF an.err # "none" THEN Raise(h, an.err)
    ELSE AlignSegment(h, tzData, refDate, an,
                      FindSegment(an.segs, 0, refDate, timeTol))

AlignAllSegmentMedian(h, tzData, refDate, timeTol, afterDate) ==
    AlignAllSegmentMedianAnalyzed(h, tzData, refDate, timeTol,
        AnalyzeTZSeries(View(h, tzData), afterDate, timeTol))

\* the loop over the markers: acc = [h, out, meds, err]; r is what
\* AlignAllMedian returned for the first marker of ks
RECURSIVE Level1(_, _, _, _, _, _)
Level1Step(acc, ks, r, tzMultiData, refDate, afterDate, timeTol) ==
    IF r.err # "none" THEN [acc EXCEPT !.h = r.h, !.err = r.err]
    ELSE IF MEDIAN \notin DOMAIN r.h.dicts[r.d]
    THEN [acc EXCEPT !.h = r.h, !.err = "KeyError"]
    ELSE Level1([h |-> r.h,
                 out |-> (Head(ks) :> r.d) @@ acc.out,
                 meds |-> (Head(ks) :> r.h.dicts[r.d][MEDIAN]) @@ acc.meds,
                 err |-> "none"],
                Tail(ks), tzMultiData, refDate, afterDate, timeTol)

Level1(acc, ks, tzMultiData, refDate, afterDate, timeTol) ==
    IF ks = <<>> \/ acc.err # "none" THEN acc
    ELSE Level1Step(acc, ks,
                    AlignAllMedian(acc.h, tzMultiData[Head(ks)], refDate,
                                   afterDate, timeTol),
                    tzMultiData, refDate, afterDate, timeTol)

\* Level2 that leaves the markers where the first level put them
Level2Skipped(h, ks, out, dz) == h

\* every marker is moved by its shift to the grand median
RECURSIVE Level2(_, _, _, _)
Level2(h, ks, out, dz) ==
    IF ks = <<>> THEN h
    ELSE Level2(ApplyZShift(h, out[Head(ks)], dz[Head(ks)]), Tail(ks), out, dz)

\* every marker and the grand median are moved by dz
RECURSIVE Anchor(_, _, _, _)
Anchor(h, ks, out, dz) ==
    IF ks = <<>> THEN h
    ELSE Anchor(ApplyZShift(h, out[Head(ks)], dz), Tail(ks), out, dz)

TwoLevelOut(h3, out, dz) ==
    [h |-> Anchor(h3, KeySeq(DOMAIN out), out, dz), m |-> out, err |-> "none"]

TwoLevelAnchor(h2, out, median, ip) ==
    IF ip.err # "none" THEN [h |-> h2, m |-> <<>>, err |-> ip.err]
    ELSE TwoLevelOut(AllocDict(h2, (MEDIAN :> median)),
                     (MEDIAN :> Len(h2.dicts) + 1) @@ out, RNeg(ip.r))

TwoLevelGrand(l1, refDate, an) ==
    IF an.err # "none" THEN [h |-> l1.h, m |-> <<>>, err |-> an.err]
    ELSE TwoLevelAnchor(Level2(l1.h, KeySeq(DOMAIN an.dz), l1.out, an.dz),
                        l1.out, an.median,
                        Interpolate(an.median, refDate, FALSE))

TwoLevelMarkers(l1, refDate, afterDate, timeTol) ==
    IF l1.err # "none" THEN [h |-> l1.h, m |-> <<>>, err |-> l1.err]
    ELSE TwoLevelGrand(l1, refDate,
                       AnalyzeTZSeries([m \in DOMAIN l1.meds |->
                                          l1.h.lists[l1.meds[m]]],
                                       afterDate, timeTol))

\* Result: [h, m, err]; m maps the markers and MEDIAN to dictionaries
AlignAllMedian2Level(h, tzMultiData, refDate, afterDate, timeTol) ==
    IF DOMAIN tzMultiData = {}
    THEN [h |-> AllocDict(h, (MEDIAN :> <<>>)),
          m |-> (MEDIAN :> Len(h.dicts) + 1), err |-> "none"]
    ELSE TwoLevelMarkers(Level1([h |-> h, out |-> <<>>, meds |-> <<>>,
                                 err |-> "none"],
                                KeySeq(DOMAIN tzMultiData), tzMultiData,
                                refDate, afterDate, timeTol),
                         refDate, afterDate, timeTol)

(***************************************************************************)
(* The database: the history cache and the calls that read it              *)
(***************************************************************************)
NO_ALIGNMENT == ""
ADD_MEDIAN == "add_median"
ADD_MERGE == "add_merge"
ALIGN_MEDIAN == "align_median"
ALIGN_ALL == "align_all"
ALIGN_ALL_SEGMENT == "align_all_segment"
Alignments == {NO_ALIGNMENT, ADD_MEDIAN, ADD_MERGE, ALIGN_MEDIAN, ALIGN_ALL,
               ALIGN_ALL_SEGMENT}

\* timeTol=30, the default of the alignment functions
DefaultTimeTol == 30

VARIABLES
    heap,       \* the lists and dictionaries
    hist,       \* _cache.hist: marker -> dictionary (survey -> list)
    raw,        \* the contents of the cache when it was filled
    tzOut,      \* what the last call returned
    lastCall,   \* the last call and its arguments
    writes,     \* number of calls that changed the content of the cache
    tzIn,       \* AnalyzeTZSeries called directly: the collection,
    anArg,      \*   afterDate and timeTol,
    anRes,      \*   and the result
    tz1, tz2,   \* CalcAlignment: the two series,
    cArg,       \*   focusAfterDated and timeTol,
    cst,        \*   the locals of the merge loop,
    calcRes,    \*   and the result
    fnCall,     \* a function of the library called directly: its name and
                \*   arguments,
    fnRes       \*   and what it returned

dbvars == <<heap, hist, raw, tzOut, lastCall, writes>>
anvars == <<tzIn, anArg, anRes>>
calcvars == <<tz1, tz2, cArg, cst, calcRes>>
fnvars == <<fnCall, fnRes>>
vars == <<heap, hist, raw, tzOut, lastCall, writes, tzIn, anArg, anRes,
          tz1, tz2, cArg, cst, calcRes, fnCall, fnRes>>

NoOut == [kind |-> "none", d |-> 0, m |-> <<>>, r |-> None, err |-> "none"]
DictOut(d) == [NoOut EXCEPT !.kind = "dict", !.d = d]
MultiOut(m) == [NoOut EXCEPT !.kind = "multi", !.m = m]
ScalarOut(r) == [NoOut EXCEPT !.kind = "scalar", !.r = r]
ErrorOut(e) == [NoOut EXCEPT !.kind = "error", !.err = e]

NoCall == [fn |-> "none", spm |-> "", pml |-> {}, alignment |-> "",
           refDate |-> None, afterDate |-> None, a |-> "", b |-> ""]

\* Objects are renamed so that the live ones are numbered in the order the
\* cache and then the result reach them; unreachable objects are dropped.
\* Aliases stay aliases.
LiveDicts(histF, out) ==
    LET hk == KeySeq(DOMAIN histF)
        mk == KeySeq(DOMAIN out.m)
    IN  Uniq([i \in 1..Len(hk) |-> histF[hk[i]]]
             \o (IF out.kind = "dict" THEN <<out.d>> ELSE <<>>)
             \o [i \in 1..Len(mk) |-> out.m[mk[i]]])

LiveLists(h, dseq) ==
    Uniq(Concat([i \in 1..Len(dseq) |->
                   LET ks == KeySeq(DOMAIN h.dicts[dseq[i]])
                   IN  [j \in 1..Len(ks) |-> h.dicts[dseq[i]][ks[j]]]]))

Compact(h, histF, out) ==
    LET dseq == LiveDicts(histF, out)
        lseq == LiveLists(h, dseq)
    IN  [heap |-> [lists |-> [i \in 1..Len(lseq) |-> h.lists[lseq[i]]],
                   dicts |-> [i \in 1..Len(dseq) |->
                                [k \in DOMAIN h.dicts[dseq[i]] |->
                                   IndexOf(lseq, h.dicts[dseq[i]][k])]]],
         hist |-> [m \in DOMAIN histF |-> IndexOf(dseq, histF[m])],
         out |-> [out EXCEPT
                    !.d = IF out.kind = "dict" THEN IndexOf(dseq, out.d) ELSE 0,
                    !.m = [m \in DOMAIN out.m |-> IndexOf(dseq, out.m[m])]]]

\* tzOut = tzData | newdict: a new dictionary with the lists of both
Union(h, tzData, extra) ==
    Ret([lists |-> AllocDict(h, extra).lists,
         dicts |-> Append(h.dicts,
                          h.dicts[tzData] @@
                          Last(AllocDict(h, extra).dicts))],
        Len(h.dicts) + 1)

AddMedian(h, tzData, an) ==
    IF an.err # "none" THEN Raise(h, an.err)
    ELSE Union(h, tzData, MedianDict(an))

\* the alignment of tzData = self._cache.hist[spm]
Aligned(h, tzData, alignment, refDate, afterDate) ==
    CASE alignment = ADD_MEDIAN ->
           AddMedian(h, tzData,
                     AnalyzeTZSeries(View(h, tzData), afterDate,
                                     R(DefaultTimeTol)))
      [] alignment = ADD_MERGE ->
           Union(h, tzData,
                 (MERGE :> MergeTZSeries(View(h, tzData), R(DefaultTimeTol))))
      [] alignment = ALIGN_MEDIAN ->
           AlignMedian(h, tzData, refDate, afterDate, R(DefaultTimeTol))
      [] alignment = ALIGN_ALL ->
           AlignAllMedian(h, tzData, refDate, afterDate, R(DefaultTimeTol))
      [] alignment = ALIGN_ALL_SEGMENT ->
           AlignAllSegmentMedian(h, tzData, refDate, R(DefaultTimeTol),
                                 afterDate)
      [] OTHER -> Ret(h, tzData)

\* tzOut = copy.deepcopy(tzOut)
CopyOut(cp) == [h |-> cp.h, out |-> DictOut(cp.d)]

Copied(r) ==
    IF r.err # "none" THEN [h |-> r.h, out |-> ErrorOut(r.err)]
    ELSE CopyOut(DeepCopy(r.h, r.d))

\* getHeightsForPMAsList without reference shifts (refShifts=None):
\* [h, out]
GetHeightsForPMAsList(h, histF, spm, alignment, refDate0, afterDate) ==
    IF spm \notin DOMAIN histF THEN [h |-> h, out |-> ErrorOut("NoHist")]
    ELSE Copied(Aligned(h, histF[spm], alignment,
                        IF refDate0 = None THEN R(0) ELSE refDate0,
                        afterDate))

MultiResult(r) ==
    IF r.err # "none" THEN [h |-> r.h, out |-> ErrorOut(r.err)]
    ELSE [h |-> r.h, out |-> MultiOut(r.m)]

\* getHeightsForPMListAsList without reference shifts; afterDate and refDate
\* are day numbers (a missing date is day 0)
GetHeightsForPMListAsList(h, histF, pml, refDate, afterDate) ==
    IF \E spm \in pml : spm \notin DOMAIN histF
    THEN [h |-> h, out |-> ErrorOut("KeyError")]
    ELSE MultiResult(AlignAllMedian2Level(h, [spm \in pml |-> histF[spm]],
                         IF refDate = None THEN R(0) ELSE refDate,
                         IF afterDate = None THEN R(0) ELSE afterDate,
                         R(DefaultTimeTol)))

\* the content of the cache: marker -> survey -> points
CacheView == [m \in DOMAIN hist |-> View(heap, hist[m])]

\* the content of what the last call returned
OutView ==
    IF tzOut.kind = "dict" THEN View(heap, tzOut.d)
    ELSE IF tzOut.kind = "multi"
    THEN [m \in DOMAIN tzOut.m |-> View(heap, tzOut.m[m])]
    ELSE <<>>

\* the lists of the cache, and the lists of the result
CacheLists == UNION {{heap.dicts[hist[m]][k] : k \in DOMAIN heap.dicts[hist[m]]}
                     : m \in DOMAIN hist}
OutDicts == IF tzOut.kind = "dict" THEN {tzOut.d}
            ELSE {tzOut.m[m] : m \in DOMAIN tzOut.m}
OutLists == UNION {{heap.dicts[d][k] : k \in DOMAIN heap.dicts[d]}
                   : d \in OutDicts}

(***************************************************************************)
(* Inputs of the database model                                            *)
(***************************************************************************)
Markers == {"m1", "m2"}
Surveys == {"s1", "s2"}
\* the days of the measurements: two days closer than timeTol
Days == {R(0), R(20)}
Heights == {R(z) : z \in 0..MaxZ}
Points == Days \X Heights

\* the measurements of one marker in one survey, in the order of time
DBSeries == {l \in UNION {[1..n -> Points] : n \in 1..MaxLen} :
               \A i \in 1..Len(l) - 1 : RLt(l[i][1], l[i + 1][1])}

\* the history: one marker in two surveys, or two markers in one survey
Histories ==
    {("m1" :> c) : c \in [Surveys -> DBSeries]}
    \cup {[m \in Markers |-> ("s1" :> c[m])] : c \in [Markers -> DBSeries]}

RefDates == {None, R(20)}
AfterDates == {None}

\* _fillCache: one dictionary per marker, one list per survey
RECURSIVE FillCache(_, _, _)
FillCache(h, content, ms) ==
    IF ms = <<>> THEN h
    ELSE FillCache(AllocDict(h, content[Head(ms)]), content, Tail(ms))

(***************************************************************************)
(* The database specification                                              *)
(***************************************************************************)
Idle == <<>>

AnIdle == tzIn = Idle /\ anArg = Idle /\ anRes = Idle
CalcIdle == tz1 = Idle /\ tz2 = Idle /\ cArg = Idle /\ cst = Idle
            /\ calcRes = Idle
FnIdle == fnCall = Idle /\ fnRes = Idle

Init ==
    /\ \E content \in Histories :
         /\ heap = FillCache(EmptyHeap, content, KeySeq(DOMAIN content))
         /\ hist = [m \in DOMAIN content |-> IndexOf(KeySeq(DOMAIN content), m)]
         /\ raw = content
    /\ tzOut = NoOut
    /\ lastCall = NoCall
    /\ writes = 0
    /\ AnIdle
    /\ CalcIdle
    /\ FnIdle

\* the call returns: the result and the heap it left are kept
Returns(res) ==
    \E r \in {res} :
    \E c \in {Compact(r.h, hist, r.out)} :
    \E cv \in {[m \in DOMAIN c.hist |-> View(c.heap, c.hist[m])]} :
        /\ heap' = c.heap
        /\ hist' = c.hist
        /\ tzOut' = c.out
        /\ writes' = IF cv = CacheView THEN writes ELSE writes + 1
        /\ writes' <= MaxWrites
        /\ UNCHANGED <<raw, anvars, calcvars, fnvars>>

GetHeights(spm, alignment, refDate, afterDate) ==
    /\ tzOut = NoOut
    /\ lastCall' = [NoCall EXCEPT !.fn = "getHeightsForPMAsList", !.spm = spm,
                                  !.alignment = alignment, !.refDate = refDate,
                                  !.afterDate = afterDate]
    /\ Returns(GetHeightsForPMAsList(heap, hist, spm, alignment, refDate,
                                     afterDate))

GetHeightsList(pml, refDate, afterDate) ==
    /\ tzOut = NoOut
    /\ lastCall' = [NoCall EXCEPT !.fn = "getHeightsForPMListAsList",
                                  !.pml = pml, !.refDate = refDate,
                                  !.afterDate = afterDate]
    /\ Returns(GetHeightsForPMListAsList(heap, hist, pml, refDate, afterDate))

\* CalcAlignment on the histories of a marker in two surveys
CompareSurveys(spm, a, b, afterDate) ==
    /\ tzOut = NoOut
    /\ spm \in DOMAIN hist
    /\ a \in DOMAIN heap.dicts[hist[spm]]
    /\ b \in DOMAIN heap.dicts[hist[spm]]
    /\ lastCall' = [NoCall EXCEPT !.fn = "CalcAlignment", !.spm = spm,
                                  !.a = a, !.b = b, !.afterDate = afterDate]
    /\ LET r == CalcAlignment(View(heap, hist[spm])[a], View(heap, hist[spm])[b],
                              afterDate, R(DefaultTimeTol))
       IN  Returns([h |-> heap,
                    out |-> IF r.err = "none" THEN ScalarOut(r.r)
                            ELSE ErrorOut(r.err)])

\* the caller drops the result
Release ==
    /\ tzOut # NoOut
    /\ \E c \in {Compact(heap, hist, NoOut)} :
         /\ heap' = c.heap
         /\ hist' = c.hist
         /\ tzOut' = c.out
    /\ lastCall' = NoCall
    /\ UNCHANGED <<raw, writes, anvars, calcvars, fnvars>>

Next ==
    \/ Release
    \/ \E spm \in Markers, al \in Alignments, rd \in RefDates, ad \in AfterDates :
         GetHeights(spm, al, rd, ad)
    \/ \E pml \in SUBSET Markers, rd \in RefDates, ad \in AfterDates :
         GetHeightsList(pml, rd, ad)
    \/ \E spm \in Markers, a \in Surveys, b \in Surveys, ad \in AfterDates :
         CompareSurveys(spm, a, b, ad)

Spec == Init /\ [][Next]_vars

(***************************************************************************)
(* AnalyzeTZSeries called directly                                         *)
(***************************************************************************)
DbIdle == /\ heap = EmptyHeap /\ hist = <<>> /\ raw = <<>> /\ tzOut = NoOut
          /\ lastCall = NoCall /\ writes = 0

APoints == {R(t) : t \in 0..MaxT} \X {R(z) : z \in 0..MaxZ}

\* non-empty series sorted ascending in time (equal times allowed)
ASeries == {l \in UNION {[1..n -> APoints] : n \in 1..MaxLen} :
              \A i \in 1..Len(l) - 1 : RLe(l[i][1], l[i + 1][1])}

\* the two drifting series of the scenario: offset 10, drift 0.5 in 10 days
DriftA == <<<<R(0), R(10)>>, <<R(10), R(11)>>>>
DriftB == <<<<R(0), R(20)>>, <<R(10), <<43, 2>>>>>>
DriftScenario == ("s1" :> DriftA) @@ ("s2" :> DriftB)

\* series of at most two points, at different times
ASeries3 == {l \in ASeries : Len(l) <= 2 /\ (Len(l) = 2 => l[1][1] # l[2][1])}

\* series with unique times
AUnique == {l \in ASeries : \A i \in 1..Len(l) - 1 : l[i][1] # l[i + 1][1]}

\* one series, the same series twice, and the drifting series
ACollections ==
    {("s1" :> a) : a \in ASeries}
    \cup {[s \in {"s1", "s2"} |-> a] : a \in AUnique}
    \cup {DriftScenario}
\* two series of at most two points, the second one with different times
ACollections2 ==
    {("s1" :> a) @@ ("s2" :> b) : a \in {l \in ASeries : Len(l) <= 2},
                                  b \in ASeries3}
\* three series, two short ones and a single point of height 0
ACollections3 ==
    {("s1" :> a) @@ ("s2" :> b) @@ ("s3" :> <<<<R(t), R(0)>>>>) :
       a \in ASeries3, b \in ASeries3, t \in 0..MaxT}

\* three series over the same day, each level or rising
ACollectionsRise ==
    {("s1" :> <<<<R(0), R(0)>>, <<R(1), R(a)>>>>)
     @@ ("s2" :> <<<<R(0), R(0)>>, <<R(1), R(b)>>>>)
     @@ ("s3" :> <<<<R(0), R(0)>>, <<R(1), R(c)>>>>) :
       a \in 0..MaxZ, b \in 0..MaxZ, c \in 0..MaxZ}

\* two short series, one beginning GapDays after the other began, under
\* either key
GapDays == MaxT + 3
LaterBy(l, d) == [i \in 1..Len(l) |-> <<RAdd(l[i][1], R(d)), l[i][2]>>]
ACollectionsGap ==
    {("s1" :> a) @@ ("s2" :> LaterBy(b, GapDays)) : a \in ASeries3, b \in ASeries3}
    \cup {("s1" :> LaterBy(b, GapDays)) @@ ("s2" :> a) :
            a \in ASeries3, b \in ASeries3}

\* afterDate and timeTol: the defaults (0, 30) and two other pairs
AArgs == {[afterDate |-> R(0), timeTol |-> R(DefaultTimeTol)],
          [afterDate |-> None, timeTol |-> R(1)],
          [afterDate |-> R(2), timeTol |-> R(2)]}
AArgs2 == {[afterDate |-> None, timeTol |-> R(1)],
           [afterDate |-> R(2), timeTol |-> R(2)]}
AArgs3 == {[afterDate |-> None, timeTol |-> R(1)]}

InitAnalyze ==
    /\ \/ tzIn \in ACollections /\ anArg \in AArgs
       \/ tzIn \in ACollections2 /\ anArg \in AArgs2
       \/ tzIn \in ACollections3 /\ anArg \in AArgs3
       \/ tzIn \in ACollectionsGap /\ anArg \in AArgs2
       \/ tzIn = <<>> /\ anArg \in AArgs
       \/ tzIn \in ACollectionsRise /\ anArg \in AArgs3
    /\ anRes = Idle
    /\ DbIdle
    /\ CalcIdle
    /\ FnIdle

AnalyzeCall ==
    /\ anRes = Idle
    /\ anRes' = AnalyzeTZSeries(tzIn, anArg.afterDate, anArg.timeTol)
    /\ UNCHANGED <<tzIn, anArg, dbvars, calcvars, fnvars>>

NextAnalyze == AnalyzeCall

SpecAnalyze == InitAnalyze /\ [][NextAnalyze]_vars

(***************************************************************************)
(* CalcAlignment, one iteration of its merge loop at a time                *)
(***************************************************************************)
CPoints == {R(t) : t \in 0..MaxT + 1} \X {R(z) : z \in 0..MaxZ}

\* series sorted ascending in time with unique times, the empty one too
CSeries == {l \in UNION {[1..n -> CPoints] : n \in 0..MaxLen} :
              \A i \in 1..Len(l) - 1 : RLt(l[i][1], l[i + 1][1])}

CArgs == {[focusAfterDated |-> None, timeTol |-> R(1)],
          [focusAfterDated |-> None, timeTol |-> R(2)],
          [focusAfterDated |-> R(2), timeTol |-> R(2)]}

\* level series of one point more, as first series
CLong == {[i \in 1..MaxLen + 1 |-> <<l[i][1], R(0)>>] :
            l \in {m \in [1..MaxLen + 1 -> CPoints] :
                     \A i \in 1..MaxLen : RLt(m[i][1], m[i + 1][1])}}

InitCalc ==
    /\ \/ tz1 \in CSeries /\ tz2 \in CSeries
       \/ tz1 \in CLong /\ tz2 \in CSeries
    /\ cArg \in CArgs
    /\ cst = Idle
    /\ calcRes = Idle
    /\ DbIdle
    /\ AnIdle
    /\ FnIdle

\* the call up to the loop; an empty series returns at once
CalcEnter ==
    /\ cst = Idle
    /\ calcRes = Idle
    /\ IF Len(tz1) = 0 \/ Len(tz2) = 0
       THEN calcRes' = [err |-> "none", r |-> R(0)] /\ cst' = cst
       ELSE cst' = CalcInit(tz1, tz2) /\ calcRes' = calcRes
    /\ UNCHANGED <<tz1, tz2, cArg, dbvars, anvars, fnvars>>

CalcIterate ==
    /\ cst # Idle
    /\ cst.st = "loop"
    /\ cst' = CalcStep(tz1, tz2, cst)
    /\ UNCHANGED <<tz1, tz2, cArg, calcRes, dbvars, anvars, fnvars>>

\* after the loop: the result, or the error that ended the loop
CalcFinish ==
    /\ cst # Idle
    /\ cst.st # "loop"
    /\ calcRes = Idle
    /\ calcRes' = IF cst.st = "done"
                  THEN CalcFinal(tz1, tz2, cst, cArg.focusAfterDated,
                                 cArg.timeTol)
                  ELSE [err |-> cst.st, r |-> None]
    /\ UNCHANGED <<tz1, tz2, cArg, cst, dbvars, anvars, fnvars>>

NextCalc == CalcEnter \/ CalcIterate \/ CalcFinish

SpecCalc == InitCalc /\ [][NextCalc]_vars

(***************************************************************************)
(* MergeTZSeries called directly                                           *)
(***************************************************************************)
\* series in any order of time, the empty one too
MSeries == UNION {[1..n -> APoints] : n \in 0..MaxLen + 1}

\* no series, one series, and two short sorted series
MCollections ==
    {<<>>}
    \cup {("s1" :> a) : a \in MSeries}
    \cup {("s1" :> a) @@ ("s2" :> b) : a \in ASeries3, b \in ASeries3}

MTimeTols == {R(t) : t \in 1..MaxT}

InitMerge ==
    /\ fnCall \in {[fn |-> "MergeTZSeries", tzData |-> d, timeTol |-> tol] :
                     d \in MCollections, tol \in MTimeTols}
    /\ fnRes = Idle
    /\ DbIdle
    /\ AnIdle
    /\ CalcIdle

MergeCall ==
    /\ fnRes = Idle
    /\ fnRes' = (MERGE :> MergeTZSeries(fnCall.tzData, fnCall.timeTol))
    /\ UNCHANGED <<fnCall, dbvars, anvars, calcvars>>

NextMerge == MergeCall

SpecMerge == InitMerge /\ [][NextMerge]_vars

(***************************************************************************)
(* The alignment functions called directly                                 *)
(***************************************************************************)
\* what the caller sees of a call that returned dictionary r.d, or raised
DictResult(r) ==
    [err |-> r.err, out |-> IF r.err = "none" THEN View(r.h, r.d) ELSE <<>>]

\* the same for the dictionary of dictionaries of AlignAllMedian2Level
MultiDictResult(r) ==
    [err |-> r.err,
     out |-> IF r.err = "none" THEN [m \in DOMAIN r.m |-> View(r.h, r.m[m])]
             ELSE <<>>]

\* three surveys of one point each
AlPoints3 ==
    {("s1" :> <<p>>) @@ ("s2" :> <<q>>) @@ ("s3" :> <<<<R(t), R(0)>>>>) :
       p \in APoints, q \in APoints, t \in 0..MaxT}

\* no survey, one survey, three surveys of one point
AlCollections == {<<>>} \cup {("s1" :> a) : a \in ASeries} \cup AlPoints3

\* two short surveys
AlCollections2 == {("s1" :> a) @@ ("s2" :> b) : a \in ASeries3, b \in ASeries3}

\* one marker in two surveys, or two markers in one survey; the second
\* series is a single point
AlMultiCollections ==
    {("m1" :> (("s1" :> a) @@ ("s2" :> <<p>>))) :
       a \in ASeries3, p \in APoints}
    \cup {("m1" :> ("s1" :> a)) @@ ("m2" :> ("s1" :> <<p>>)) :
            a \in ASeries3, p \in APoints}

\* refDate: the days of the data and a day far after them
AlRefDates == {R(t) : t \in 0..MaxT} \cup {R(MaxT + GapDays)}
AlRefDates2 == {R(1), R(MaxT + GapDays)}

AlFunctions == {"AlignMedian", "AlignAllMedian", "AlignAllSegmentMedian"}

AlCall(f, d, rd, arg) ==
    [fn |-> f, tzData |-> d, refDate |-> rd, afterDate |-> arg.afterDate,
     timeTol |-> arg.timeTol]

InitAlign ==
    /\ \/ fnCall \in {AlCall(f, d, rd, arg) :
                        f \in AlFunctions, d \in AlCollections,
                        rd \in AlRefDates, arg \in AArgs3}
       \/ fnCall \in {AlCall(f, d, rd, arg) :
                        f \in AlFunctions, d \in AlCollections2,
                        rd \in AlRefDates2, arg \in AArgs3}
       \/ fnCall \in {AlCall("AlignAllMedian2Level", d, rd, arg) :
                        d \in AlMultiCollections \cup {<<>>}, rd \in AlRefDates2,
                        arg \in AArgs3}
    /\ fnRes = Idle
    /\ DbIdle
    /\ AnIdle
    /\ CalcIdle

\* the caller's dictionary is the first object of the heap
AlignMedianCall ==
    /\ fnRes = Idle
    /\ fnCall.fn = "AlignMedian"
    /\ fnRes' = DictResult(AlignMedian(AllocDict(EmptyHeap, fnCall.tzData), 1,
                                       fnCall.refDate, fnCall.afterDate,
                                       fnCall.timeTol))
    /\ UNCHANGED <<fnCall, dbvars, anvars, calcvars>>

AlignAllMedianCall ==
    /\ fnRes = Idle
    /\ fnCall.fn = "AlignAllMedian"
    /\ fnRes' = DictResult(AlignAllMedian(AllocDict(EmptyHeap, fnCall.tzData),
                                          1, fnCall.refDate, fnCall.afterDate,
                                          fnCall.timeTol))
    /\ UNCHANGED <<fnCall, dbvars, anvars, calcvars>>

AlignAllSegmentMedianCall ==
    /\ fnRes = Idle
    /\ fnCall.fn = "AlignAllSegmentMedian"
    /\ fnRes' = DictResult(AlignAllSegmentMedian(
                               AllocDict(EmptyHeap, fnCall.tzData), 1,
                               fnCall.refDate, fnCall.timeTol,
                               fnCall.afterDate))
    /\ UNCHANGED <<fnCall, dbvars, anvars, calcvars>>

\* the dictionaries of the markers are the first objects of the heap
AlignAllMedian2LevelCall ==
    /\ fnRes = Idle
    /\ fnCall.fn = "AlignAllMedian2Level"
    /\ fnRes' = MultiDictResult(AlignAllMedian2Level(
                    FillCache(EmptyHeap, fnCall.tzData,
                              KeySeq(DOMAIN fnCall.tzData)),
                    [m \in DOMAIN fnCall.tzData |->
                       IndexOf(KeySeq(DOMAIN fnCall.tzData), m)],
                    fnCall.refDate, fnCall.afterDate, fnCall.timeTol))
    /\ UNCHANGED <<fnCall, dbvars, anvars, calcvars>>

NextAlign ==
    \/ AlignMedianCall
    \/ AlignAllMedianCall
    \/ AlignAllSegmentMedianCall
    \/ AlignAllMedian2LevelCall

SpecAlign == InitAlign /\ [][NextAlign]_vars

(***************************************************************************)
(* The functions called on collections without data                        *)
(***************************************************************************)
\* no series, a series without points, alone and beside a series with points
ECollections ==
    {<<>>, ("s1" :> <<>>)}
    \cup {("s1" :> <<>>) @@ ("s2" :> a) : a \in ASeries3}
    \cup {("s1" :> a) @@ ("s2" :> <<>>) : a \in ASeries3}

\* no marker, a marker without surveys (alone and beside a marker with data),
\* a marker with a survey without points
EMultiCollections ==
    {<<>>, ("m1" :> <<>>)}
    \cup {("m1" :> c) : c \in ECollections \ {<<>>}}
    \cup {("m1" :> <<>>) @@ ("m2" :> ("s1" :> a)) : a \in ASeries3}

InitEmpty ==
    \/ /\ tzIn \in ECollections
       /\ anArg \in AArgs
       /\ anRes = Idle
       /\ DbIdle
       /\ CalcIdle
       /\ FnIdle
    \/ /\ \/ fnCall \in {AlCall(f, d, rd, arg) :
                           f \in AlFunctions, d \in ECollections,
                           rd \in AlRefDates2, arg \in AArgs2}
          \/ fnCall \in {AlCall("AlignAllMedian2Level", d, rd, arg) :
                           d \in EMultiCollections, rd \in AlRefDates2,
                           arg \in AArgs2}
       /\ fnRes = Idle
       /\ DbIdle
       /\ AnIdle
       /\ CalcIdle

NextEmpty ==
    \/ anArg # Idle /\ AnalyzeCall
    \/ fnCall # Idle /\ AlignMedianCall
    \/ fnCall # Idle /\ AlignAllMedianCall
    \/ fnCall # Idle /\ AlignAllSegmentMedianCall
    \/ fnCall # Idle /\ AlignAllMedian2LevelCall

SpecEmpty == InitEmpty /\ [][NextEmpty]_vars

(***************************************************************************)
(* The lookups called directly, on whole numbers                           *)
(***************************************************************************)
\* a day far from the others: with 49 days between two points the slope
\* times the distance is not the difference of the heights in doubles
LongDay == 49
LDays == (0..MaxT) \cup {LongDay}
LPoints == LDays \X (0..MaxZ)

\* sequences of points with unique times, ascending or descending, the empty
\* one too
LSeries ==
    {l \in UNION {[1..n -> LPoints] : n \in 0..MaxLen + 1} :
       \/ \A i \in 1..Len(l) - 1 : l[i][1] < l[i + 1][1]
       \/ \A i \in 1..Len(l) - 1 : l[i][1] > l[i + 1][1]}

\* the times asked for: the days, the days next to them and the middle
LTimes == (-1..MaxT + 1) \cup {LongDay \div 2, LongDay \div 2 + 1, LongDay,
                               LongDay + 1}

\* the points as rationals
Rationals(l) == [i \in 1..Len(l) |-> <<R(l[i][1]), R(l[i][2])>>]

InitLookup ==
    /\ \/ fnCall \in {[fn |-> "Interpolate", tzPairs |-> l, t |-> t,
                       extrapol |-> e] :
                        l \in LSeries, t \in LTimes, e \in BOOLEAN}
       \/ fnCall \in {[fn |-> "GetClosest", tzPairs |-> l, t |-> t] :
                        l \in LSeries, t \in LTimes}
    /\ fnRes = Idle
    /\ DbIdle
    /\ AnIdle
    /\ CalcIdle

InterpolateCall ==
    /\ fnRes = Idle
    /\ fnCall.fn = "Interpolate"
    /\ fnRes' = InterpolateDouble(fnCall.tzPairs, fnCall.t, fnCall.extrapol)
    /\ UNCHANGED <<fnCall, dbvars, anvars, calcvars>>

GetClosestCall ==
    /\ fnRes = Idle
    /\ fnCall.fn = "GetClosest"
    /\ fnRes' = GetClosest(Rationals(fnCall.tzPairs), R(fnCall.t))
    /\ UNCHANGED <<fnCall, dbvars, anvars, calcvars>>

NextLookup == InterpolateCall \/ GetClosestCall

SpecLookup == InitLookup /\ [][NextLookup]_vars

(***************************************************************************)
(* Properties                                                              *)
(***************************************************************************)
\* the times of a series
TimesOf(l) == {l[i][1] : i \in 1..Len(l)}

\* AnalyzeTZSeries has returned, without an error
Analyzed == anRes # Idle
AnalyzedOk == Analyzed /\ anRes.err = "none"

\* every key has one segment whose time range holds all its times, and every
\* segment has a member
Partition ==
    /\ anRes.err = "none"
    /\ DOMAIN anRes.segment = DOMAIN tzIn
    /\ \A s \in DOMAIN tzIn :
         /\ anRes.segment[s] \in 0..Len(anRes.segs) - 1
         /\ \A t \in TimesOf(tzIn[s]) :
              /\ RLe(At(anRes.segs, anRes.segment[s])[1][1], t)
              /\ RLe(t, Last(At(anRes.segs, anRes.segment[s]))[1])
    /\ \A iseg \in 0..Len(anRes.segs) - 1 :
         \E s \in DOMAIN tzIn : anRes.segment[s] = iseg

\* C1 (as claimed): the segment assignment of AnalyzeTZSeries is a partition.
\* For every collection of non-empty series sorted ascending in time the call
\* ends without an error (no series is left without a segment, the "Empty
\* segment" assertion is not reached), every series key has one segment id,
\* all times of the series lie in the time range [first, last] of that
\* segment's curve, and every segment has at least one member series.
SegmentPartition == Analyzed => Partition

\* C1 (amended): the same for every collection that holds at least one
\* series; the empty collection gives the one segment median_segment_0, which
\* is empty and has no member.
SegmentPartitionNonEmpty == (Analyzed /\ DOMAIN tzIn # {}) => Partition

\* C1 witness: three series in two segments, one of them with two members
SegmentPartitionWitness ==
    /\ AnalyzedOk
    /\ Cardinality(DOMAIN tzIn) = 3
    /\ Len(anRes.segs) = 2
    /\ \E s \in DOMAIN tzIn : Len(tzIn[s]) = 2

\* C2 (as claimed): whatever calls of getHeightsForPMAsList came before, the
\* cache holds the raw history, and a call with NO_ALIGNMENT returns exactly
\* the raw data of the marker.
CacheKeepsRawHistory ==
    /\ CacheView = raw
    /\ (lastCall.fn = "getHeightsForPMAsList"
        /\ lastCall.alignment = NO_ALIGNMENT /\ tzOut.kind = "dict")
       => OutView = raw[lastCall.spm]

\* C3 (as claimed): AlignMedian leaves the collection of its caller as it
\* was: same keys, same points.
AlignMedianReadOnly ==
    [][(lastCall'.fn = "getHeightsForPMAsList"
        /\ lastCall'.alignment = ALIGN_MEDIAN) => CacheView' = CacheView]_vars

\* C4 (as claimed): AlignAllSegmentMedian leaves every point sequence of the
\* collection of its caller as it was.
AlignAllSegmentMedianReadOnly ==
    [][(lastCall'.fn = "getHeightsForPMAsList"
        /\ lastCall'.alignment = ALIGN_ALL_SEGMENT)
       => CacheView' = CacheView]_vars

\* the calls that reach AnalyzeTZSeries, MergeTZSeries, AlignAllMedian,
\* AlignAllMedian2Level and CalcAlignment on the cached collections
ComparisonCall(c) ==
    \/ c.fn = "getHeightsForPMAsList"
       /\ c.alignment \in {ADD_MEDIAN, ADD_MERGE, ALIGN_ALL}
    \/ c.fn = "getHeightsForPMListAsList"
    \/ c.fn = "CalcAlignment"

\* C5: AnalyzeTZSeries, MergeTZSeries, CalcAlignment, AlignAllMedian and
\* AlignAllMedian2Level leave the collections of the caller unchanged (same
\* dictionaries, same keys, same lists with the same points), and no list of
\* the result of AlignAllMedian2Level is a list of the input.
ComparisonCallsReadOnly ==
    [][ComparisonCall(lastCall') =>
         /\ CacheView' = CacheView
         /\ hist' = hist
         /\ \A m \in DOMAIN hist : heap'.dicts[hist[m]] = heap.dicts[hist[m]]
         /\ (lastCall'.fn = "getHeightsForPMListAsList"
             => OutLists' \cap CacheLists' = {})]_vars

\* C5 witness: the two-level alignment of two markers has returned shifted
\* series and the medians
ComparisonCallsWitness ==
    /\ lastCall.fn = "getHeightsForPMListAsList"
    /\ tzOut.kind = "multi"
    /\ DOMAIN tzOut.m = {"m1", "m2", MEDIAN}
    /\ OutView["m1"]["s1"] # raw["m1"]["s1"]
    /\ OutLists # {}

\* CalcAlignment has returned or raised
CalcEnded == calcRes # Idle

\* tz2 has the timestamps of tz1 and every height of tz1 increased by c
ShiftedBy(c) ==
    /\ Len(tz1) > 0
    /\ Len(tz2) = Len(tz1)
    /\ \A i \in 1..Len(tz1) :
         tz2[i][1] = tz1[i][1] /\ tz2[i][2] = RAdd(tz1[i][2], c)

ShiftConstants == {R(c) : c \in -MaxZ..MaxZ}

Separated(a, b) ==
    /\ Len(a) > 0
    /\ Len(b) > 0
    /\ RLe(RAdd(Last(a)[1], cArg.timeTol), b[1][1])

\* C7: CalcAlignment raises NoOverlapException whenever the two non-empty
\* series are disjoint in time and separated by at least timeTol, whichever
\* argument is the earlier one and whatever the lengths.
DisjointRaisesNoOverlap ==
    (CalcEnded /\ (Separated(tz1, tz2) \/ Separated(tz2, tz1)))
      => calcRes.err = "NoOverlapException"

\* C7 witness: the second argument is the earlier series, both series have
\* more than one point, the gap is exactly timeTol, and the call has raised
DisjointRaisesWitness ==
    /\ CalcEnded
    /\ Len(tz1) > 1
    /\ Len(tz2) > 1
    /\ RAdd(Last(tz2)[1], cArg.timeTol) = tz1[1][1]
    /\ calcRes.err = "NoOverlapException"

\* the first series ends before the second begins, less than timeTol before
NearTouching(a, b) ==
    /\ Len(a) > 0
    /\ Len(b) > 0
    /\ RLt(Last(a)[1], b[1][1])
    /\ RLt(b[1][1], RAdd(Last(a)[1], cArg.timeTol))

\* the samples after the near-touching case has been looked at
SamplesAtEnd == CalcNearTouch(tz1, tz2, cst, cArg.timeTol)

\* C8 (as claimed): when the loop has collected no sample and the last point
\* of one series lies within timeTol of the first point of the other, the
\* call does not raise; there is one sample, at the midpoint of the two times,
\* with the difference (second series minus first series) of those two
\* points, for either order of the arguments and any lengths.
NearTouchingSample ==
    /\ (CalcEnded /\ cst # Idle /\ cst.st = "done" /\ Len(cst.dtz) = 0
        /\ NearTouching(tz1, tz2))
       => /\ calcRes.err = "none"
          /\ SamplesAtEnd = <<<<RHalf(RAdd(Last(tz1)[1], tz2[1][1])),
                               RSub(tz2[1][2], Last(tz1)[2])>>>>
    /\ (CalcEnded /\ cst # Idle /\ cst.st = "done" /\ Len(cst.dtz) = 0
        /\ NearTouching(tz2, tz1))
       => /\ calcRes.err = "none"
          /\ SamplesAtEnd = <<<<RHalf(RAdd(tz1[1][1], Last(tz2)[1])),
                               RSub(Last(tz2)[2], tz1[1][2])>>>>

\* the two series of the call are the same series, with unique times
IdenticalPair ==
    /\ DOMAIN tzIn = {"s1", "s2"}
    /\ tzIn["s1"] = tzIn["s2"]
    /\ \A i \in 1..Len(tzIn["s1"]) - 1 :
         RLt(tzIn["s1"][i][1], tzIn["s1"][i + 1][1])

DriftShiftsDifferByHalfDrift ==
    (Analyzed /\ tzIn = DriftScenario) =>
      /\ anRes.err = "none"
      /\ Len(anRes.segs) = 1
      /\ anRes.segment = [s \in {"s1", "s2"} |-> 0]
      /\ RAbs(RSub(anRes.dz["s1"], anRes.dz["s2"])) = <<1, 4>>

\* C10 (amended): both series are in one segment and the shift of A minus the
\* shift of B is the mean offset 10.25 of B over A, which is the offset 10 on
\* day 0 plus half the total drift; the shifts are 5.125 and -5.125.
DriftShiftsDifferByMeanOffset ==
    (Analyzed /\ tzIn = DriftScenario) =>
      /\ anRes.err = "none"
      /\ Len(anRes.segs) = 1
      /\ anRes.segment = [s \in {"s1", "s2"} |-> 0]
      /\ RSub(anRes.dz["s1"], anRes.dz["s2"]) = RAdd(R(10), <<1, 4>>)
      /\ anRes.dz["s1"] = <<41, 8>>
      /\ anRes.dz["s2"] = <<-41, 8>>

\* C10 witness: the drifting series are analysed with the default arguments
DriftWitness ==
    /\ AnalyzedOk
    /\ tzIn = DriftScenario
    /\ anArg = [afterDate |-> R(0), timeTol |-> R(DefaultTimeTol)]

\* the series without time-duplicates, the curves of the segments before they
\* are shifted, and the shift and covered duration of a series against the
\* unshifted curve of its segment
DedupIn == [s \in DOMAIN tzIn |-> Dedup(tzIn[s])]
RawSegments ==
    WalkLoop(DedupIn, TimePoints(tzIn), anArg.timeTol, 0, TimePoints(tzIn)[1],
             R(0), [s \in DOMAIN tzIn |-> 0],
             << <<<<TimePoints(tzIn)[1], R(0)>>>> >>)
\* segs0 being the segments before the shifts: the shift and the covered
\* duration of series s against its segment, and its weight
RawShift(segs0, s) ==
    SeriesShift(DedupIn[s], At(segs0, anRes.segment[s]), anArg.afterDate)
Weight(segs0, s) == RMax(<<1, 1000>>, RawShift(segs0, s)[2])
SegMembers(iseg) == {s \in DOMAIN tzIn : anRes.segment[s] = iseg}
WeightedShifts(segs0, keys) ==
    [i \in 1..Len(keys) |-> RMul(Weight(segs0, keys[i]), anRes.dz[keys[i]])]
ZeroSum(segs0) ==
    \A iseg \in 0..Len(anRes.segs) - 1 :
      /\ SumR(WeightedShifts(segs0, KeySeq(SegMembers(iseg)))) = R(0)
      /\ \A s \in SegMembers(iseg) :
           At(anRes.segs, iseg) =
             ShiftZ(At(segs0, iseg), RSub(anRes.dz[s], RawShift(segs0, s)[1]))

\* C11: in every segment the reported shifts are zero-sum against the
\* weighted average: the sum over the member series of weight * shift is 0,
\* the weight being the covered (weighted) duration floored at 0.001, and the
\* curve of the segment is lowered by the same amount as the shifts of its
\* members.
SegmentShiftsZeroSum == AnalyzedOk => ZeroSum(RawSegments)

DifferentWeights(segs0, s, u) == Weight(segs0, s) # Weight(segs0, u)

\* C11 witness: a segment with two members of different weight that are both
\* shifted
SegmentShiftsWitness ==
    /\ AnalyzedOk
    /\ \E s \in DOMAIN tzIn, u \in DOMAIN tzIn :
         /\ anRes.segment[s] = anRes.segment[u]
         /\ anRes.dz[s] # R(0)
         /\ anRes.dz[u] # R(0)
         /\ RAdd(anRes.dz[s], anRes.dz[u]) # R(0)
         /\ DifferentWeights(RawSegments, s, u)

\* series a ends more than timeTol before series b begins
GapBetween(a, b) ==
    RLt(RAdd(Last(tzIn[a])[1], anArg.timeTol), tzIn[b][1][1])

\* C12: two non-empty ascending series and no other, the first ending more
\* than timeTol before the second begins: the call ends without an error with
\* exactly two segments, the earlier series in median_segment_0 and the later
\* one in median_segment_1.
GapGivesTwoSegments ==
    (Analyzed /\ Cardinality(DOMAIN tzIn) = 2) =>
      \A a \in DOMAIN tzIn, b \in DOMAIN tzIn :
        (a # b /\ GapBetween(a, b)) =>
          /\ anRes.err = "none"
          /\ Len(anRes.segs) = 2
          /\ SegKey(anRes.segment[a]) = "median_segment_0"
          /\ SegKey(anRes.segment[b]) = "median_segment_1"

\* C12 witness: the later series is the first key of the collection, the
\* earlier one has two points and ends less than two timeTol before the other
GapWitness ==
    /\ AnalyzedOk
    /\ DOMAIN tzIn = {"s1", "s2"}
    /\ GapBetween("s2", "s1")
    /\ Len(tzIn["s2"]) = 2
    /\ Len(tzIn["s1"]) = 2
    /\ RLt(tzIn["s1"][1][1],
           RAdd(Last(tzIn["s2"])[1], RMul(R(2), anArg.timeTol)))
    /\ Len(anRes.segs) = 2

\* MergeTZSeries has returned
Merged == fnCall # Idle /\ fnCall.fn = "MergeTZSeries" /\ fnRes # Idle

\* C13 (as claimed): the sequence under key 'merge' is strictly increasing in
\* time and no two of its entries have times closer than timeTol.
MergeEntriesApart ==
    Merged =>
      \A i \in 1..Len(fnRes[MERGE]), j \in 1..Len(fnRes[MERGE]) :
        i < j =>
          /\ RLt(fnRes[MERGE][i][1], fnRes[MERGE][j][1])
          /\ RLe(fnCall.timeTol,
                 RSub(fnRes[MERGE][j][1], fnRes[MERGE][i][1]))

\* function f, called directly, has returned or raised
Called(f) == fnCall # Idle /\ fnCall.fn = f /\ fnRes # Idle

\* what AnalyzeTZSeries makes of the collection of the call
CallAnalysis ==
    AnalyzeTZSeries(fnCall.tzData, fnCall.afterDate, fnCall.timeTol)

\* refDate lies in the time range [first, last] of the curve of segment k
RefDateInside(k) ==
    /\ RLe(At(CallAnalysis.segs, k)[1][1], fnCall.refDate)
    /\ RLe(fnCall.refDate, Last(At(CallAnalysis.segs, k))[1])

\* C14 (as claimed): when refDate lies inside the time range of segment k of
\* a dataset of several segments, AlignAllSegmentMedian returns exactly the
\* series assigned to segment k and the entry 'median_segment_', and no
\* series of any other segment.
SegmentOfRefDateReturned ==
    (Called("AlignAllSegmentMedian") /\ fnCall.tzData # <<>>
       /\ CallAnalysis.err = "none" /\ Len(CallAnalysis.segs) > 1) =>
      \A k \in 0..Len(CallAnalysis.segs) - 1 :
        RefDateInside(k) =>
          /\ fnRes.err = "none"
          /\ DOMAIN fnRes.out =
               {s \in DOMAIN fnCall.tzData : CallAnalysis.segment[s] = k}
               \cup {MEDIAN_SEGMENT}

\* AlignAllSegmentMedian has found a segment and returned its series
SegmentFound ==
    /\ Called("AlignAllSegmentMedian")
    /\ fnRes.err = "none"
    /\ MEDIAN_SEGMENT \in DOMAIN fnRes.out

\* C15 (as claimed): when AlignAllSegmentMedian finds a segment covering
\* refDate, the returned curve 'median_segment_' interpolated at refDate
\* without extrapolation is 0, and every kept series is the input series
\* moved by one and the same scalar.
SegmentMedianZeroAtRefDate ==
    SegmentFound =>
      /\ Interpolate(fnRes.out[MEDIAN_SEGMENT], fnCall.refDate, FALSE) =
           [err |-> "none", r |-> R(0)]
      /\ \A s \in DOMAIN fnRes.out \ {MEDIAN_SEGMENT},
           u \in DOMAIN fnRes.out \ {MEDIAN_SEGMENT} :
           /\ Len(fnRes.out[s]) = Len(fnCall.tzData[s])
           /\ fnRes.out[s] =
                ShiftZ(fnCall.tzData[s],
                       RSub(fnRes.out[u][1][2], fnCall.tzData[u][1][2]))

\* the curve of no segment covers refDate within timeTol
NoSegmentCovers ==
    \A j \in 1..Len(CallAnalysis.segs) :
      \/ CallAnalysis.segs[j] = <<>>
      \/ ~ /\ RLe(CallAnalysis.segs[j][1][1],
                  RAdd(fnCall.refDate, fnCall.timeTol))
           /\ RLe(RSub(fnCall.refDate, fnCall.timeTol),
                  Last(CallAnalysis.segs[j])[1])

\* C16 (as claimed): AlignAllSegmentMedian returns an empty collection and
\* raises nothing whenever no segment covers refDate within timeTol, a
\* collection without series included.
NoSegmentReturnsEmpty ==
    (Called("AlignAllSegmentMedian") /\ CallAnalysis.err = "none"
       /\ NoSegmentCovers) =>
      /\ fnRes.err = "none"
      /\ fnRes.out = <<>>

\* curve c is 0 on the refDate of the call, interpolated without
\* extrapolation
ZeroAtRefDate(c) ==
    Interpolate(c, fnCall.refDate, FALSE) = [err |-> "none", r |-> R(0)]

\* C17: for AlignMedian and AlignAllMedian on a non-empty collection the
\* returned curve 'median' is 0 at refDate (interpolated without
\* extrapolation), and so is the grand median out['median']['median'] of
\* AlignAllMedian2Level.  AlignMedian moves every series and the median by one
\* and the same scalar, so height differences between points are kept.
MedianZeroAtRefDate ==
    /\ (Called("AlignMedian") /\ fnCall.tzData # <<>>) =>
         /\ fnRes.err = "none"
         /\ ZeroAtRefDate(fnRes.out[MEDIAN])
         /\ DOMAIN fnRes.out = DOMAIN fnCall.tzData \cup {MEDIAN}
         /\ \A s \in DOMAIN fnCall.tzData :
              fnRes.out[s] =
                ShiftZ(fnCall.tzData[s],
                       RSub(fnRes.out[MEDIAN][1][2],
                            CallAnalysis.median[1][2]))
         /\ fnRes.out[MEDIAN] =
              ShiftZ(CallAnalysis.median,
                     RSub(fnRes.out[MEDIAN][1][2], CallAnalysis.median[1][2]))
    /\ (Called("AlignAllMedian") /\ fnCall.tzData # <<>>) =>
         /\ fnRes.err = "none"
         /\ ZeroAtRefDate(fnRes.out[MEDIAN])
    /\ (Called("AlignAllMedian2Level") /\ fnCall.tzData # <<>>) =>
         /\ fnRes.err = "none"
         /\ ZeroAtRefDate(fnRes.out[MEDIAN][MEDIAN])

\* C17 witness: AlignMedian has moved a series, refDate lying between two
\* points of the median that differ in height
MedianZeroWitness ==
    /\ Called("AlignMedian")
    /\ fnRes.err = "none"
    /\ Len(fnRes.out[MEDIAN]) = 2
    /\ RLt(fnRes.out[MEDIAN][1][1], fnCall.refDate)
    /\ RLt(fnCall.refDate, fnRes.out[MEDIAN][2][1])
    /\ fnRes.out[MEDIAN][1][2] # fnRes.out[MEDIAN][2][2]
    /\ fnRes.out["s1"] # fnCall.tzData["s1"]

\* the constant AlignAllMedian adds to series s: DZ[s] of the analysis minus
\* the height of its median curve on refDate
SeriesConstant(an, s) ==
    RSub(an.dz[s], Interpolate(an.median, fnCall.refDate, FALSE).r)

\* series s is returned with the same times and the same number of points,
\* every height moved by constant c, and moving it back gives the input
MovedBy(s, c) ==
    /\ Len(fnRes.out[s]) = Len(fnCall.tzData[s])
    /\ \A i \in 1..Len(fnCall.tzData[s]) :
         /\ fnRes.out[s][i][1] = fnCall.tzData[s][i][1]
         /\ fnRes.out[s][i][2] = RAdd(fnCall.tzData[s][i][2], c)
    /\ ShiftZ(fnRes.out[s], RNeg(c)) = fnCall.tzData[s]

AllMovedBy(an) ==
    \A s \in DOMAIN fnCall.tzData : MovedBy(s, SeriesConstant(an, s))

\* C18: AlignAllMedian is an invertible shift per series: every input series
\* is returned with the same times and the same number of points, every
\* height being the input height plus DZ[s] minus the height of the median
\* curve on refDate; taking that constant off again gives the input heights.
AlignAllMedianShiftsPerSeries ==
    Called("AlignAllMedian") =>
      /\ fnRes.err = "none"
      /\ DOMAIN fnRes.out =
           DOMAIN fnCall.tzData
           \cup (IF fnCall.tzData = <<>> THEN {} ELSE {MEDIAN})
      /\ AllMovedBy(CallAnalysis)

\* two series are moved by different constants, neither of them by the
\* height of the median on refDate alone
MovedApart(an) ==
    /\ SeriesConstant(an, "s1") # SeriesConstant(an, "s2")
    /\ an.dz["s1"] # R(0)
    /\ SeriesConstant(an, "s1") # an.dz["s1"]

\* C18 witness: two series, one of two points, moved by different constants
AlignAllMedianWitness ==
    /\ Called("AlignAllMedian")
    /\ fnRes.err = "none"
    /\ {"s1", "s2"} \subseteq DOMAIN fnCall.tzData
    /\ Len(fnCall.tzData["s1"]) = 2
    /\ MovedApart(CallAnalysis)

\* C19 (as claimed): for a non-empty sequence of points with unique times,
\* ascending or descending, Interpolate at the time of one of its points
\* returns exactly the height of that point, with extrapolation on or off.
InterpolateExactAtPoints ==
    Called("Interpolate") =>
      \A i \in 1..Len(fnCall.tzPairs) :
        fnCall.tzPairs[i][1] = fnCall.t =>
          fnRes = [err |-> "none", r |-> Double(fnCall.tzPairs[i][2])]

\* the distance in time between point p and the time asked for
TimeDistance(p) == RAbs(RSub(R(fnCall.t), p[1]))

\* the points of the call, as rationals
CallPoints ==
    {Rationals(fnCall.tzPairs)[i] : i \in 1..Len(fnCall.tzPairs)}

\* C20: GetClosest returns a point of the sequence whose distance in time to
\* t is minimal over all points: the point of lowest time for t at or below
\* the lowest time, the point of highest time for t at or above the highest
\* time, and the only point of a sequence of length 1 for any t.
GetClosestIsNearest ==
    (Called("GetClosest") /\ fnCall.tzPairs # <<>>) =>
      /\ fnRes.err = "none"
      /\ fnRes.r \in CallPoints
      /\ \A p \in CallPoints : RLe(TimeDistance(fnRes.r), TimeDistance(p))
      /\ \A p \in CallPoints :
           /\ RLe(R(fnCall.t), p[1]) => RLe(fnRes.r[1], p[1])
           /\ RLe(p[1], R(fnCall.t)) => RLe(p[1], fnRes.r[1])
      /\ Len(fnCall.tzPairs) = 1 => fnRes.r = Rationals(fnCall.tzPairs)[1]

\* C20 witness: a descending sequence of three points, t strictly between
\* the first two of them and nearer to the second, the earlier in time
GetClosestWitness ==
    /\ Called("GetClosest")
    /\ Len(fnCall.tzPairs) = 3
    /\ fnCall.tzPairs[1][1] > fnCall.tzPairs[2][1]
    /\ fnRes.err = "none"
    /\ fnRes.r = Rationals(fnCall.tzPairs)[2]
    /\ RLt(fnRes.r[1], R(fnCall.t))
    /\ \A p \in CallPoints : p[1] # R(fnCall.t)

\* C21 (as claimed): when t is exactly halfway between the times of the two
\* points that enclose it, GetClosest returns the one of lower index.
GetClosestTieLowerIndex ==
    Called("GetClosest") =>
      \A i \in 1..Len(fnCall.tzPairs) - 1 :
        2 * fnCall.t = fnCall.tzPairs[i][1] + fnCall.tzPairs[i + 1][1] =>
          fnRes = [err |-> "none", r |-> Rationals(fnCall.tzPairs)[i]]

\* the sequence in the other direction
Reversed(l) == [i \in 1..Len(l) |-> l[Len(l) + 1 - i]]

\* the result of the call on the points in the other direction
ResultReversed ==
    IF fnCall.fn = "GetClosest"
    THEN GetClosest(Rationals(Reversed(fnCall.tzPairs)), R(fnCall.t))
    ELSE InterpolateDouble(Reversed(fnCall.tzPairs), fnCall.t,
                           fnCall.extrapol)

\* C22: Interpolate and GetClosest give the same result on a sequence with
\* unique times sorted ascending and on the same points sorted descending,
\* for every t and both values of the extrapolation flag.
DirectionAgnostic ==
    (Called("GetClosest") \/ Called("Interpolate")) => fnRes = ResultReversed

\* C22 witness: GetClosest on three ascending points, t halfway between the
\* first two, where the point returned depends on which end is taken as low
DirectionWitness ==
    /\ Called("GetClosest")
    /\ Len(fnCall.tzPairs) = 3
    /\ fnCall.tzPairs[1][1] < fnCall.tzPairs[2][1]
    /\ 2 * fnCall.t = fnCall.tzPairs[1][1] + fnCall.tzPairs[2][1]
    /\ fnRes = ResultReversed
    /\ fnRes.r = Rationals(fnCall.tzPairs)[2]

\* C23: AnalyzeTZSeries on the empty collection returns without an error an
\* empty median curve, and segment and shift maps that hold no series key.
EmptyInputEmptyOutput ==
    (Analyzed /\ DOMAIN tzIn = {}) =>
      /\ anRes.err = "none"
      /\ anRes.median = <<>>
      /\ \A i \in 1..Len(anRes.segs) : anRes.segs[i] = <<>>
      /\ DOMAIN anRes.segment = {}
      /\ DOMAIN anRes.dz = {}

\* C23 witness: the call on the empty collection has returned, for an
\* afterDate that is set
EmptyInputWitness ==
    /\ Analyzed
    /\ tzIn = <<>>
    /\ anArg.afterDate # None
    /\ anRes.err = "none"
    /\ anRes.median = <<>>

\* collection d holds no series, or a series without points
HasEmpty(d) == DOMAIN d = {} \/ \E s \in DOMAIN d : d[s] = <<>>

\* C24 (as claimed): AnalyzeTZSeries, AlignMedian, AlignAllMedian,
\* AlignAllMedian2Level and AlignAllSegmentMedian, given an empty collection
\* or one in which a series has no points, never fail with IndexError.
EmptyDataNoIndexError ==
    /\ (Analyzed /\ HasEmpty(tzIn)) => anRes.err # "IndexError"
    /\ \A f \in AlFunctions :
         (Called(f) /\ HasEmpty(fnCall.tzData)) => fnRes.err # "IndexError"
    /\ (/\ Called("AlignAllMedian2Level")
        /\ \/ DOMAIN fnCall.tzData = {}
           \/ \E m \in DOMAIN fnCall.tzData : HasEmpty(fnCall.tzData[m]))
       => fnRes.err # "IndexError"

\* the height of series l at time t, a time inside its range: the height of
\* its point at t, or the line between its two points around t
HeightAt(l, t) == Interpolate(l, t, FALSE).r

\* time t lies in the time range of series l
InRange(l, t) == RLe(l[1][1], t) /\ RLe(t, Last(l)[1])

\* C25 (as claimed): the merge walk of CalcAlignment visits the points of
\* both series in ascending time order, each point once (the point under a
\* cursor is the point at the cursor's index); every collected sample (t, d)
\* has t inside the time ranges of both series and d = B(t) - A(t), a series
\* without a point at t being interpolated between its two points around t;
\* the sample times are non-decreasing.
WalkCollectsDifferences ==
    cst # Idle =>
      /\ cst.st = "loop" =>
           /\ <<cst.t1, cst.z1>> = At(tz1, cst.i1)
           /\ <<cst.t2, cst.z2>> = At(tz2, cst.i2)
      /\ \A k \in 1..Len(cst.dtz) :
           /\ InRange(tz1, cst.dtz[k][1])
           /\ InRange(tz2, cst.dtz[k][1])
           /\ cst.dtz[k][2] = RSub(HeightAt(tz2, cst.dtz[k][1]),
                                   HeightAt(tz1, cst.dtz[k][1]))
      /\ \A k \in 1..Len(cst.dtz) - 1 :
           RLe(cst.dtz[k][1], cst.dtz[k + 1][1])

\* C29 (as claimed): CalcAlignment on two non-empty series sorted ascending
\* with unique times returns a number or raises NoOverlapException; it never
\* ends with another error.
CalcReturnsOrNoOverlap ==
    (calcRes # Idle /\ tz1 # <<>> /\ tz2 # <<>>) =>
      calcRes.err \in {"none", "NoOverlapException"}

\* an iteration from c to d has advanced one cursor by one and left the
\* other; the loop goes on with both cursors on a point, or it has ended
\* within Len(tz1) + Len(tz2) iterations
OneCursorAdvanced(c, d) ==
    /\ \/ d.i1 = c.i1 + 1 /\ d.i2 = c.i2
       \/ d.i1 = c.i1 /\ d.i2 = c.i2 + 1
    /\ d.st = "loop" => d.i1 < Len(tz1) /\ d.i2 < Len(tz2)
    /\ d.st = "done" => d.i1 >= Len(tz1) \/ d.i2 >= Len(tz2)
    /\ d.i1 + d.i2 <= Len(tz1) + Len(tz2)

\* the iteration has ended the loop with both cursors on the last points, at
\* equal times
BothAtEnd(c, d) ==
    /\ d.st = "done"
    /\ d.i1 = c.i1 /\ d.i2 = c.i2
    /\ c.i1 = Len(tz1) - 1 /\ c.i2 = Len(tz2) - 1
    /\ c.t1 = c.t2
    /\ c.i1 + c.i2 + 1 <= Len(tz1) + Len(tz2)

\* C30: the merge loop of CalcAlignment ends for every pair of non-empty
\* series: the iteration that comes next advances exactly one of the cursors
\* i1, i2 by one, or ends the loop with both cursors on their last points at
\* equal times; the loop ends once a cursor has passed the end of its series,
\* after at most len(A) + len(B) iterations (the cursors start at 0 and their
\* sum counts the iterations).
IterationAdvances(c, d) == OneCursorAdvanced(c, d) \/ BothAtEnd(c, d)
CalcLoopTerminates ==
    (cst # Idle /\ cst.st = "loop") =>
      IterationAdvances(cst, CalcStep(tz1, tz2, cst))

\* C30 witness: two series of two points walked to the end in three
\* iterations, the first cursor passing the end
CalcLoopWitness ==
    /\ cst # Idle
    /\ cst.st = "done"
    /\ Len(tz1) = 2
    /\ Len(tz2) = 2
    /\ cst.i1 = 2
    /\ cst.i2 = 1
    /\ Len(cst.dtz) = 2

\* the heights of the points of series l at time t, in their order
HeightsAt(l, t) ==
    LET at == SelectSeq(l, LAMBDA p : p[1] = t)
    IN  [i \in 1..Len(at) |-> at[i][2]]

EqualTimesCollapsed(l, d) ==
    /\ \A i \in 1..Len(d) - 1 : RLt(d[i][1], d[i + 1][1])
    /\ TimesOf(d) = TimesOf(l)
    /\ \A i \in 1..Len(d) : d[i][2] = Median(HeightsAt(l, d[i][1]))

Contributing(d, t0, t1) ==
    Derivatives(d, KeySeq(DOMAIN d),
                [s \in DOMAIN d |-> EndTolIdx(d[s], 0, t1, anArg.timeTol)],
                t0, t1, anArg.timeTol)

\* the number of the segment that holds the i-th point of the median curve
RECURSIVE SegmentOfPoint(_, _)
SegmentOfPoint(i, k) ==
    IF i <= Len(anRes.segs[k]) THEN k
    ELSE SegmentOfPoint(i - Len(anRes.segs[k]), k + 1)

\* points i and i + 1 of the median curve, dz being the derivatives
\* contributed to the interval between them
IntervalIntegrated(i, dz) ==
    IF dz # <<>>
    THEN /\ SegmentOfPoint(i + 1, 1) = SegmentOfPoint(i, 1)
         /\ RSub(anRes.median[i + 1][2], anRes.median[i][2]) =
              RMul(Median(dz),
                   RSub(anRes.median[i + 1][1], anRes.median[i][1]))
    ELSE SegmentOfPoint(i + 1, 1) = SegmentOfPoint(i, 1) + 1

ConsensusCurve(d) ==
    /\ [i \in 1..Len(anRes.median) |-> anRes.median[i][1]] = TimePoints(tzIn)
    /\ anRes.median = Concat(anRes.segs)
    /\ \A i \in 1..Len(anRes.median) - 1 :
         IntervalIntegrated(i, Contributing(d, anRes.median[i][1],
                                            anRes.median[i + 1][1]))

\* C26: the consensus curve of AnalyzeTZSeries has one point per distinct
\* input time, in ascending order, and 'median' is the concatenation of
\* median_segment_0..k-1.  For consecutive times t0 < t1: if a series
\* contributes a derivative both points are in one segment and
\* z(t1) - z(t0) = median(derivatives) * (t1 - t0); if none does, t1 is the
\* first point of the next segment.
ConsensusIntegratesMedian == AnalyzedOk => ConsensusCurve(DedupIn)

\* C26 witness: three series contribute to one interval, the median of
\* their derivatives is not their mean, and the curve rises by the median
ConsensusWitness ==
    /\ AnalyzedOk
    /\ Cardinality(DOMAIN tzIn) = 3
    /\ Len(anRes.median) = 2
    /\ Len(Contributing(DedupIn, anRes.median[1][1], anRes.median[2][1])) = 3
    /\ RSub(anRes.median[2][2], anRes.median[1][2]) = R(1)
    /\ \E s \in DOMAIN tzIn : tzIn[s][2][2] = R(0)

\* what AlignAllMedian returns for the surveys of each marker on its own
SingleLevel(call) ==
    [m \in DOMAIN call.tzData |->
       DictResult(AlignAllMedian(AllocDict(EmptyHeap, call.tzData[m]), 1,
                                 call.refDate, call.afterDate, call.timeTol))]

\* every list of marker m is the single-level list moved by an.dz[m] - ip.r,
\* and the grand median is an.median moved by -ip.r
BlockShifted(out, singles, an, ip) ==
    /\ ip.err = "none"
    /\ DOMAIN out[MEDIAN] = {MEDIAN}
    /\ out[MEDIAN][MEDIAN] = ShiftZ(an.median, RNeg(ip.r))
    /\ \A m \in DOMAIN singles :
         /\ DOMAIN an.dz = DOMAIN singles
         /\ DOMAIN out[m] = DOMAIN singles[m].out
         /\ \A s \in DOMAIN out[m] :
              out[m][s] = ShiftZ(singles[m].out[s], RSub(an.dz[m], ip.r))

GrandAnchored(out, singles, refDate, an) ==
    /\ an.err = "none"
    /\ BlockShifted(out, singles, an, Interpolate(an.median, refDate, FALSE))

RigidBlocks(call, out, singles) ==
    /\ \A m \in DOMAIN singles : singles[m].err = "none"
    /\ GrandAnchored(out, singles, call.refDate,
                     AnalyzeTZSeries([m \in DOMAIN singles |->
                                        singles[m].out[MEDIAN]],
                                     call.afterDate, call.timeTol))

TwoLevelReturned ==
    /\ fnCall # Idle
    /\ fnCall.fn = "AlignAllMedian2Level"
    /\ fnRes # Idle
    /\ fnRes.err = "none"

\* C28: AlignAllMedian2Level moves each marker as a rigid block: every survey
\* of marker m and m's own median is the result of
\* AlignAllMedian(input[m], refDate) plus one scalar for all of m, the shift
\* of m from AnalyzeTZSeries over the medians of the markers minus the height
\* of the grand median on refDate; the output has one entry per marker and
\* the grand median under out[MEDIAN][MEDIAN].
TwoLevelRigidBlocks ==
    TwoLevelReturned =>
      /\ DOMAIN fnRes.out = DOMAIN fnCall.tzData \cup {MEDIAN}
      /\ DOMAIN fnRes.out[MEDIAN] = {MEDIAN}
      /\ DOMAIN fnCall.tzData # {} =>
           RigidBlocks(fnCall, fnRes.out, SingleLevel(fnCall))

\* C28 witness: two markers returned, moved by different scalars from where
\* AlignAllMedian put them
TwoLevelWitness ==
    /\ TwoLevelReturned
    /\ DOMAIN fnCall.tzData = {"m1", "m2"}
    /\ TwoLevelRigidBlocks
    /\ LET singles == SingleLevel(fnCall)
           d1 == RSub(fnRes.out["m1"][MEDIAN][1][2],
                      singles["m1"].out[MEDIAN][1][2])
           d2 == RSub(fnRes.out["m2"][MEDIAN][1][2],
                      singles["m2"].out[MEDIAN][1][2])
       IN  d1 # d2

====
